---- MODULE Spec2Model ----
(***************************************************************************)
(* Model of the guitarzero game engine: the transport state machine of     *)
(* useGameEngine (src/README.md:231-653), the onset intake                 *)
(* (hooks/gameEngine/onsetIntake.ts) and the scoring engine                *)
(* (hooks/gameEngine/scoringEngine.ts, lib/scoring).                       *)
(*                                                                         *)
(* Units.  Audio-clock times (now, playStartTime, timestamps) are counted  *)
(* in audio ticks of 50 ms.  Song times are counted in song ticks of       *)
(* 12.5 ms, so that speed 1.0 is 4 song ticks per audio tick and the       *)
(* speeds 0.25 / 0.5 / 1.0 / 2.0 are the integers 1 / 2 / 4 / 8.           *)
(* Tolerances in milliseconds are kept in song ticks (200 ms = 16).        *)
(***************************************************************************)
EXTENDS Integers, Sequences, FiniteSets, TLC

\* ------------------------------------------------------------------ bounds
\* Last audio tick the clock reaches.
MaxTime == 8
\* Most frame callbacks whose id was overwritten in rafIdRef while pending.
MaxOrphans == 1
\* Most onset events waiting in the audio input's queue or pending in the hook.
MaxQueue == 1
\* Pitch samples are delivered while the pitch history holds fewer than this.
MaxHistory == 1
\* Latest song time handed to the scoring engine when it is driven alone.
MaxSongTime == 52

\* ------------------------------------------------------- program constants
COUNTDOWN_BEATS == 4
MIN_SPEED == 1
MAX_SPEED == 8
DEFAULT_SPEED == 4
MIN_LOOK_AHEAD_SEC == 2
MAX_LOOK_AHEAD_SEC == 8
DEFAULT_LOOK_AHEAD_SEC == 4
PITCH_TOLERANCE_SEMITONES == 2
OCTAVE == 12
MAX_LOOKAHEAD_SEC == 5
MAX_WAIT_SEC == 6
MaxPending == 50
MaxPitchHistory == 120

\* DEFAULT_TIMING_TOLERANCES, in song ticks of 12.5 ms.
DEFAULT_TIMING_TOLERANCES == [perfectMs |-> 4, goodMs |-> 8, okMs |-> 16]

\* MIN_TRUSTED_CLARITY = 0.6, clarity kept in tenths.
MIN_TRUSTED_CLARITY == 6

\* ----------------------------------------------------------------- helpers
Abs(x) == IF x < 0 THEN -x ELSE x
Max(a, b) == IF a >= b THEN a ELSE b
Min(a, b) == IF a <= b THEN a ELSE b

\* An optional value (T | null) is the empty set or a singleton.
Null == {}
Some(x) == {x}
Get(o) == CHOOSE x \in o : TRUE

\* The last n entries of s: s.splice(0, s.length - n) leaves these.
\* Drops the newest entries instead of the oldest.
KeepOldest(s, n) ==
  IF Len(s) > n THEN SubSeq(s, 1, n) ELSE s

KeepNewest(s, n) ==
  IF Len(s) > n THEN SubSeq(s, Len(s) - n + 1, Len(s)) ELSE s

\* ------------------------------------------------------------------- tabs
\* A tab is [ppq, bpm, sections]; a section is [id, startTick, events]; an
\* event is [id, tick, durationTicks, notes] with notes a sequence of midi
\* numbers.  The measure level only groups events and is flattened away.

\* Two sections whose events lie inside them.
TabRegular ==
  [ppq |-> 1, bpm |-> 1200,
   sections |-> <<
     [id |-> "s1", startTick |-> 0,
      events |-> << [id |-> "e1", tick |-> 0, durationTicks |-> 1, notes |-> <<64>>] >>],
     [id |-> "s2", startTick |-> 4,
      events |-> << [id |-> "e2", tick |-> 4, durationTicks |-> 2, notes |-> <<52, 59>>] >>]
   >>]

\* Accepted by validateTab as well: the second section starts after the last
\* event of the tab has ended (its own event is placed before its startTick).
TabGap ==
  [ppq |-> 1, bpm |-> 1200,
   sections |-> <<
     [id |-> "s1", startTick |-> 0,
      events |-> << [id |-> "e1", tick |-> 0, durationTicks |-> 1, notes |-> <<64>>] >>],
     [id |-> "s2", startTick |-> 8,
      events |-> << [id |-> "e2", tick |-> 4, durationTicks |-> 2, notes |-> <<52, 59>>] >>]
   >>]

Tabs == {TabRegular, TabGap}

\* Two single notes close enough for one onset to match both, a chord and a
\* late single note: the tab the scoring engine is driven with on its own.
TabDense ==
  [ppq |-> 1, bpm |-> 1200,
   sections |-> <<
     [id |-> "s1", startTick |-> 0,
      events |-> << [id |-> "e1", tick |-> 0, durationTicks |-> 1, notes |-> <<64>>],
                    [id |-> "e3", tick |-> 1, durationTicks |-> 1, notes |-> <<66>>] >>],
     [id |-> "s2", startTick |-> 4,
      events |-> << [id |-> "e2", tick |-> 4, durationTicks |-> 2, notes |-> <<52, 59>>],
                    [id |-> "e4", tick |-> 8, durationTicks |-> 1, notes |-> <<64>>] >>]
   >>]

\* A single note and, 300 ms later, a chord whose first note has its pitch.
TabMatch ==
  [ppq |-> 1, bpm |-> 1200,
   sections |-> <<
     [id |-> "s1", startTick |-> 0,
      events |-> << [id |-> "e1", tick |-> 0, durationTicks |-> 1, notes |-> <<52>>],
                    [id |-> "e2", tick |-> 6, durationTicks |-> 2, notes |-> <<52, 59>>] >>]
   >>]

\* tickToSec for a tempo map with the single entry {tick: 0, bpm}, in song
\* ticks: tick / ppq * (60 / bpm) seconds at 80 song ticks per second.
tickToSec(tick, t) ==
  IF tick <= 0 THEN 0 ELSE (tick * 4800) \div (t.ppq * t.bpm)

RECURSIVE SeqMax(_, _)
SeqMax(s, acc) ==
  IF s = <<>> THEN acc ELSE SeqMax(Tail(s), Max(acc, Head(s)))

RECURSIVE FlatEvents(_)
FlatEvents(sections) ==
  IF sections = <<>> THEN <<>>
  ELSE Head(sections).events \o FlatEvents(Tail(sections))

EndTicks(events) == [i \in 1..Len(events) |-> events[i].tick + events[i].durationTicks]

getTabDuration(t) == tickToSec(SeqMax(EndTicks(FlatEvents(t.sections)), 0), t)

SectionIndex(t, sectionId) ==
  IF \E i \in 1..Len(t.sections) : t.sections[i].id = sectionId
  THEN CHOOSE i \in 1..Len(t.sections) :
         /\ t.sections[i].id = sectionId
         /\ \A j \in 1..(i - 1) : t.sections[j].id # sectionId
  ELSE 0

\* null (the empty set) when the section is not found or has no measures.
getSectionTimeBounds(t, sectionId) ==
  LET i == SectionIndex(t, sectionId) IN
  IF i = 0 THEN Null
  ELSE LET section == t.sections[i] IN
       IF section.events = <<>> THEN Null
       ELSE LET startSec == tickToSec(section.startTick, t) IN
            IF i + 1 <= Len(t.sections)
            THEN Some([startSec |-> startSec,
                       endSec |-> tickToSec(t.sections[i + 1].startTick, t)])
            ELSE Some([startSec |-> startSec,
                       endSec |-> tickToSec(SeqMax(EndTicks(section.events), section.startTick), t)])

buildLoopConfig(t, sectionId) ==
  LET bounds == getSectionTimeBounds(t, sectionId) IN
  IF SectionIndex(t, sectionId) = 0 \/ bounds = Null THEN Null
  ELSE Some([sectionId |-> sectionId,
             startSec |-> Get(bounds).startSec,
             endSec |-> Get(bounds).endSec])

\* The notes of one event, as prepareRenderNotes pushes them.
EventNotes(ev, t) ==
  [i \in 1..Len(ev.notes) |->
     [eventId |-> ev.id, noteIndex |-> i - 1, timeSec |-> tickToSec(ev.tick, t),
      midi |-> ev.notes[i], isChord |-> Len(ev.notes) > 1]]

RECURSIVE AllEventNotes(_, _)
AllEventNotes(events, t) ==
  IF events = <<>> THEN <<>>
  ELSE EventNotes(Head(events), t) \o AllEventNotes(Tail(events), t)

\* Stable insertion of x into a sequence sorted by timeSec.
RECURSIVE InsertByTime(_, _)
InsertByTime(sorted, x) ==
  IF sorted = <<>> THEN <<x>>
  ELSE IF Head(sorted).timeSec <= x.timeSec
       THEN <<Head(sorted)>> \o InsertByTime(Tail(sorted), x)
       ELSE <<x>> \o sorted

RECURSIVE SortByTime(_, _)
SortByTime(s, acc) ==
  IF s = <<>> THEN acc ELSE SortByTime(Tail(s), InsertByTime(acc, Head(s)))

prepareRenderNotes(t) == SortByTime(AllEventNotes(FlatEvents(t.sections), t), <<>>)

\* ---------------------------------------------------------------- scoring
INITIAL_SCORE_STATE ==
  [score |-> 0, streak |-> 0, maxStreak |-> 0,
   perfectCount |-> 0, goodCount |-> 0, okCount |-> 0, missCount |-> 0]

getBasePoints(result) ==
  CASE result = "perfect" -> 100
    [] result = "good" -> 75
    [] result = "ok" -> 50
    [] OTHER -> 0

getStreakMultiplier(streak) ==
  IF streak >= 30 THEN 4
  ELSE IF streak >= 20 THEN 3
  ELSE IF streak >= 10 THEN 2
  ELSE 1

\* Multiplies by the multiplier of the streak after the update.
calculatePointsAfterUpdate(result, streak) ==
  getBasePoints(result) * getStreakMultiplier(IF result = "miss" THEN 0 ELSE streak + 1)

calculatePoints(result, streak) == getBasePoints(result) * getStreakMultiplier(streak)

updateStreak(currentStreak, result) ==
  IF result = "miss" THEN 0 ELSE currentStreak + 1

\* Records the current streak as maxStreak.
applyHitResultCurrentStreak(state, result) ==
  LET newStreak == updateStreak(state.streak, result)
      points == calculatePoints(result, state.streak)
  IN [score |-> state.score + points,
      streak |-> newStreak,
      maxStreak |-> newStreak,
      perfectCount |-> state.perfectCount + (IF result = "perfect" THEN 1 ELSE 0),
      goodCount |-> state.goodCount + (IF result = "good" THEN 1 ELSE 0),
      okCount |-> state.okCount + (IF result = "ok" THEN 1 ELSE 0),
      missCount |-> state.missCount + (IF result = "miss" THEN 1 ELSE 0)]

\* Counts the hits and leaves missCount as it was.
applyHitResultMissUncounted(state, result) ==
  LET newStreak == IF result = "miss" THEN 0 ELSE state.streak + 1
  IN [score |-> state.score,
      streak |-> newStreak,
      maxStreak |-> IF state.maxStreak >= newStreak THEN state.maxStreak ELSE newStreak,
      perfectCount |-> state.perfectCount + (IF result = "perfect" THEN 1 ELSE 0),
      goodCount |-> state.goodCount + (IF result = "good" THEN 1 ELSE 0),
      okCount |-> state.okCount + (IF result = "ok" THEN 1 ELSE 0),
      missCount |-> state.missCount]

applyHitResult(state, result) ==
  LET newStreak == updateStreak(state.streak, result)
      points == calculatePoints(result, state.streak)
  IN [score |-> state.score + points,
      streak |-> newStreak,
      maxStreak |-> Max(state.maxStreak, newStreak),
      perfectCount |-> state.perfectCount + (IF result = "perfect" THEN 1 ELSE 0),
      goodCount |-> state.goodCount + (IF result = "good" THEN 1 ELSE 0),
      okCount |-> state.okCount + (IF result = "ok" THEN 1 ELSE 0),
      missCount |-> state.missCount + (IF result = "miss" THEN 1 ELSE 0)]

\* An applyHitResult that writes the new values into the object it was given.
applyHitResultInPlace(state, result) == applyHitResult(state, result)

\* What the object passed as state holds once applyHitResult has returned:
\* the function builds a new object and assigns to no field of its argument.
applyHitResultArgument(state, result) == state

\* `${note.eventId}-${note.noteIndex}`: the pair determines the string and
\* the string the pair (noteIndex is a number, so the last '-' separates them).
getNoteKey(note) == <<note.eventId, note.noteIndex>>

\* detectedMidi is an optional midi number.
\* A pitch test without the octave rule.
pitchMatchesNoOctave(detectedMidi, expectedMidi) ==
  IF detectedMidi = Null THEN FALSE
  ELSE Abs(Get(detectedMidi) - expectedMidi) <= PITCH_TOLERANCE_SEMITONES

pitchMatches(detectedMidi, expectedMidi) ==
  IF detectedMidi = Null THEN FALSE
  ELSE LET d == Get(detectedMidi) IN
       \/ Abs(d - expectedMidi) <= PITCH_TOLERANCE_SEMITONES
       \/ Abs(d - (expectedMidi + OCTAVE)) <= PITCH_TOLERANCE_SEMITONES
       \/ Abs(d - (expectedMidi - OCTAVE)) <= PITCH_TOLERANCE_SEMITONES

\* Classifies with strict comparisons: an offset at a tolerance falls into the
\* next class.
classifyTimingStrict(offsetMs, tolerances) ==
  LET absOffset == Abs(offsetMs) IN
  IF absOffset < tolerances.perfectMs THEN Some("perfect")
  ELSE IF absOffset < tolerances.goodMs THEN Some("good")
  ELSE IF absOffset < tolerances.okMs THEN Some("ok")
  ELSE Null

\* An optional ScoreResult: null outside the ok window.
classifyTiming(offsetMs, tolerances) ==
  LET absOffset == Abs(offsetMs) IN
  IF absOffset <= tolerances.perfectMs THEN Some("perfect")
  ELSE IF absOffset <= tolerances.goodMs THEN Some("good")
  ELSE IF absOffset <= tolerances.okMs THEN Some("ok")
  ELSE Null

\* The eventIds of the chord notes of pendingNotes, in order of first
\* appearance (the insertion order of the chordGroups map).
RECURSIVE ChordIds(_, _)
ChordIds(pendingNotes, seen) ==
  IF pendingNotes = <<>> THEN <<>>
  ELSE LET n == Head(pendingNotes) IN
       IF n.isChord /\ n.eventId \notin seen
       THEN <<n.eventId>> \o ChordIds(Tail(pendingNotes), seen \cup {n.eventId})
       ELSE ChordIds(Tail(pendingNotes), seen)

ChordMatches(chordNotes, detectedTimeSec, tolerances) ==
  LET offsetMs == detectedTimeSec - chordNotes[1].timeSec
      result == classifyTiming(offsetMs, tolerances)
  IN IF Abs(offsetMs) > tolerances.okMs \/ result = Null THEN <<>>
     ELSE [i \in 1..Len(chordNotes) |->
             [note |-> chordNotes[i], offsetMs |-> offsetMs, result |-> Get(result)]]

RECURSIVE AllChordMatches(_, _, _, _)
AllChordMatches(ids, pendingNotes, detectedTimeSec, tolerances) ==
  IF ids = <<>> THEN <<>>
  ELSE ChordMatches(SelectSeq(pendingNotes,
                              LAMBDA n : n.isChord /\ n.eventId = Head(ids)),
                    detectedTimeSec, tolerances)
       \o AllChordMatches(Tail(ids), pendingNotes, detectedTimeSec, tolerances)

RECURSIVE SingleMatches(_, _, _, _)
SingleMatches(detectedMidi, detectedTimeSec, pendingNotes, tolerances) ==
  IF pendingNotes = <<>> THEN <<>>
  ELSE LET note == Head(pendingNotes)
           offsetMs == detectedTimeSec - note.timeSec
           result == classifyTiming(offsetMs, tolerances)
           rest == SingleMatches(detectedMidi, detectedTimeSec, Tail(pendingNotes), tolerances)
       IN IF \/ note.isChord
             \/ Abs(offsetMs) > tolerances.okMs
             \/ ~pitchMatches(detectedMidi, note.midi)
             \/ result = Null
          THEN rest
          ELSE <<[note |-> note, offsetMs |-> offsetMs, result |-> Get(result)]>> \o rest

\* A matcher that scores nothing, chords included, without a detected midi.
findMatchingNotesWithMidi(detectedMidi, detectedTimeSec, pendingNotes, tolerances) ==
  IF detectedMidi = Null THEN <<>>
  ELSE AllChordMatches(ChordIds(pendingNotes, {}), pendingNotes, detectedTimeSec, tolerances)
       \o SingleMatches(detectedMidi, detectedTimeSec, pendingNotes, tolerances)

findMatchingNotes(detectedMidi, detectedTimeSec, pendingNotes, tolerances) ==
  AllChordMatches(ChordIds(pendingNotes, {}), pendingNotes, detectedTimeSec, tolerances)
  \o (IF detectedMidi # Null
      THEN SingleMatches(detectedMidi, detectedTimeSec, pendingNotes, tolerances)
      ELSE <<>>)

\* Misses a note already at the edge of the Ok window.
findMissedNotesAtEdge(currentTimeSec, pendingNotes, tolerances) ==
  SelectSeq(pendingNotes, LAMBDA note : currentTimeSec - note.timeSec >= tolerances.okMs)

findMissedNotes(currentTimeSec, pendingNotes, tolerances) ==
  SelectSeq(pendingNotes, LAMBDA note : currentTimeSec - note.timeSec > tolerances.okMs)

\* The scoring engine's closure state is the record
\* [scoreState, lastHitResult, hitNotes, noteResults, initialScoreState];
\* initialScoreState is what the shared object INITIAL_SCORE_STATE holds, which
\* scoreState refers to from creation or reset until the first verdict;
\* noteResults is a
\* function from the keys it holds to results.
NewScoringEngine ==
  [scoreState |-> INITIAL_SCORE_STATE, lastHitResult |-> Null,
   hitNotes |-> {}, noteResults |-> <<>>,
   initialScoreState |-> INITIAL_SCORE_STATE]

reset(eng) ==
  [scoreState |-> eng.initialScoreState, lastHitResult |-> Null,
   hitNotes |-> {}, noteResults |-> <<>>,
   initialScoreState |-> eng.initialScoreState]

\* The shared initial object after applyHitResult(scoreState, result): touched
\* only if scoreState still refers to it, that is before the first verdict.
InitialAfterVerdict(eng, result) ==
  IF DOMAIN eng.noteResults = {}
  THEN applyHitResultArgument(eng.scoreState, result)
  ELSE eng.initialScoreState

MapSet(m, k, v) == [x \in (DOMAIN m) \cup {k} |-> IF x = k THEN v ELSE m[x]]

PendingNotes(eng, allNotes) ==
  SelectSeq(allNotes, LAMBDA n : getNoteKey(n) \notin eng.hitNotes)

\* A verdict loop body that records the verdict but leaves hitNotes as it was.
ScoreNoteUnmarked(eng, note, result) ==
  LET noteKey == getNoteKey(note) IN
  IF noteKey \in eng.hitNotes THEN eng
  ELSE [scoreState |-> applyHitResult(eng.scoreState, result),
        lastHitResult |-> Some(result),
        hitNotes |-> eng.hitNotes,
        noteResults |-> MapSet(eng.noteResults, noteKey, result),
        initialScoreState |-> InitialAfterVerdict(eng, result)]

\* The body of a verdict loop for one note: record it unless already scored.
ScoreNote(eng, note, result) ==
  LET noteKey == getNoteKey(note) IN
  IF noteKey \in eng.hitNotes THEN eng
  ELSE [scoreState |-> applyHitResult(eng.scoreState, result),
        lastHitResult |-> Some(result),
        hitNotes |-> eng.hitNotes \cup {noteKey},
        noteResults |-> MapSet(eng.noteResults, noteKey, result),
        initialScoreState |-> InitialAfterVerdict(eng, result)]

\* A fold that forgets the last hit result when an onset matched nothing.
RECURSIVE ApplyMatchesOrClear(_, _)
ApplyMatchesOrClear(eng, matches) ==
  IF matches = <<>> THEN [eng EXCEPT !.lastHitResult = Null]
  ELSE IF Len(matches) = 1 THEN ScoreNote(eng, matches[1].note, matches[1].result)
  ELSE ApplyMatchesOrClear(ScoreNote(eng, Head(matches).note, Head(matches).result),
                           Tail(matches))

RECURSIVE ApplyMatches(_, _)
ApplyMatches(eng, matches) ==
  IF matches = <<>> THEN eng
  ELSE ApplyMatches(ScoreNote(eng, Head(matches).note, Head(matches).result), Tail(matches))

RECURSIVE processDetectedOnsets(_, _, _)
processDetectedOnsets(eng, detectedOnsets, allNotes) ==
  IF detectedOnsets = <<>> THEN eng
  ELSE LET detected == Head(detectedOnsets)
           matches == findMatchingNotes(detected.detectedMidi, detected.onsetSongTimeSec,
                                        PendingNotes(eng, allNotes), DEFAULT_TIMING_TOLERANCES)
       IN processDetectedOnsets(ApplyMatches(eng, matches), Tail(detectedOnsets), allNotes)

RECURSIVE ApplyMisses(_, _)
ApplyMisses(eng, missedNotes) ==
  IF missedNotes = <<>> THEN eng
  ELSE ApplyMisses(ScoreNote(eng, Head(missedNotes), "miss"), Tail(missedNotes))

processMisses(eng, songTimeSec, allNotes) ==
  ApplyMisses(eng, findMissedNotes(songTimeSec, PendingNotes(eng, allNotes),
                                   DEFAULT_TIMING_TOLERANCES))

\* A frame that looks for misses before it scores the onsets it was given.
scoreFrameMissesFirst(eng, detected, songTimeSec, allNotes) ==
  processDetectedOnsets(processMisses(eng, songTimeSec, allNotes), detected, allNotes)

\* The scoring of a Playing frame: processDetectedOnsets, then processMisses
scoreFrame(eng, detected, songTimeSec, allNotes) ==
  processMisses(processDetectedOnsets(eng, detected, allNotes), songTimeSec, allNotes)

\* ------------------------------------------------------------------ clock
\* 60 / bpm seconds, in audio ticks (20 per second).
beatDurationSec(bpm) == 1200 \div bpm

countdownDurationSec(bpm, beats) == beats * beatDurationSec(bpm)

\* createCountdownClock(bpm, beats).getFrame(elapsedSec).isDone
CountdownIsDone(bpm, beats, elapsedSec) == elapsedSec >= countdownDurationSec(bpm, beats)

getSongTimeSec(audioTimeSec, playStartTimeSec, spd) ==
  (audioTimeSec - playStartTimeSec) * spd

\* audioTimeSec - songTimeSec / speed; the model only divides song times that
\* are multiples of every modelled speed, where the quotient is exact.
getPlayStartTimeForSongTime(audioTimeSec, songTimeSec, spd) ==
  audioTimeSec - (songTimeSec \div spd)

\* A resume that adds the resume time itself, not the length of the pause.
applyResumeTimeToPlayStart(playStartTimeSec, pausedAtTimeSec, resumeAtTimeSec) ==
  playStartTimeSec + resumeAtTimeSec

applyPauseToPlayStart(playStartTimeSec, pausedAtTimeSec, resumeAtTimeSec) ==
  playStartTimeSec + (resumeAtTimeSec - pausedAtTimeSec)

\* A guard that lets pause() through in every state.
isAnyGameState(state) == state \in {"idle", "countdown", "playing", "paused", "finished"}

isActiveGameplayState(state) == state = "playing" \/ state = "countdown"

\* ---------------------------------------------------------------- looping
shouldRestartLoop(cfg, songTimeSec) ==
  cfg # Null /\ songTimeSec >= Get(cfg).endSec

\* A song start that ignores the loop.
getSongStartSec(cfg) == 0

getLoopStartSec(cfg) == IF cfg = Null THEN 0 ELSE Get(cfg).startSec

\* A restart that re-anchors the clock at song time 0.
computeRestartAtZero(audioTimeSec, cfg, spd) ==
  [songTimeSec |-> Get(cfg).startSec, playStartTimeSec |-> audioTimeSec]

computeLoopRestart(audioTimeSec, cfg, spd) ==
  [songTimeSec |-> Get(cfg).startSec,
   playStartTimeSec |-> getPlayStartTimeForSongTime(audioTimeSec, Get(cfg).startSec, spd)]

\* ----------------------------------------------------------- onset intake
\* A pitch sample is [timestampSec, midi, clarity] and an onset event is
\* [timestampSec, midi, clarity]; midi is optional, clarity is in tenths.

\* Scans recentPitches[i], i downwards, as the for loop does.
RECURSIVE PickFrom(_, _, _)
PickFrom(i, onsetTimestampSec, recentPitches) ==
  IF i < 1 THEN Null
  ELSE LET pitch == recentPitches[i] IN
       IF pitch.timestampSec < onsetTimestampSec THEN Null
       ELSE IF \/ pitch.timestampSec - onsetTimestampSec > MAX_LOOKAHEAD_SEC
               \/ pitch.midi = Null
               \/ pitch.clarity < MIN_TRUSTED_CLARITY
            THEN PickFrom(i - 1, onsetTimestampSec, recentPitches)
            ELSE Some(pitch)

\* A search that also accepts samples up to MAX_LOOKAHEAD_SEC before the onset.
pickPitchAroundOnset(onsetTimestampSec, recentPitches) ==
  LET near == {i \in DOMAIN recentPitches :
                 /\ recentPitches[i].timestampSec - onsetTimestampSec <= MAX_LOOKAHEAD_SEC
                 /\ onsetTimestampSec - recentPitches[i].timestampSec <= MAX_LOOKAHEAD_SEC
                 /\ recentPitches[i].midi # Null
                 /\ recentPitches[i].clarity >= MIN_TRUSTED_CLARITY}
  IN IF near = {} THEN Null
     ELSE Some(recentPitches[CHOOSE i \in near : \A j \in near : j <= i])

pickPitchAfterOnset(onsetTimestampSec, recentPitches) ==
  PickFrom(Len(recentPitches), onsetTimestampSec, recentPitches)

\* The optional midi used for scoring the onset.
resolveDetectedMidi(onset, curPitch, recentPitches) ==
  LET bestPitch == pickPitchAfterOnset(onset.timestampSec, recentPitches) IN
  IF bestPitch # Null THEN Get(bestPitch).midi
  ELSE IF onset.midi # Null /\ onset.clarity >= MIN_TRUSTED_CLARITY THEN onset.midi
  ELSE IF /\ curPitch # Null
          /\ Get(curPitch).midi # Null
          /\ Get(curPitch).timestampSec >= onset.timestampSec
       THEN Get(curPitch).midi
  ELSE Null

\* The loop of drainDetectedOnsets over the pending onsets; acc is
\* [detected, remaining, lastOnset].
RECURSIVE ResolvePending(_, _, _, _, _, _, _)
ResolvePending(pend, acc, curPitch, recentPitches, playStartTimeSec, spd, inputOffsetSec) ==
  IF pend = <<>> THEN acc
  ELSE LET onset == Head(pend)
           detectedMidi == resolveDetectedMidi(onset, curPitch, recentPitches)
           ageSec == IF recentPitches # <<>>
                     THEN recentPitches[Len(recentPitches)].timestampSec - onset.timestampSec
                     ELSE 0
           defer == detectedMidi = Null /\ ageSec >= 0 /\ ageSec < MAX_WAIT_SEC
           onsetSongTimeSec ==
             getSongTimeSec(onset.timestampSec - inputOffsetSec, playStartTimeSec, spd)
           next ==
             IF defer
             THEN [acc EXCEPT !.remaining = Append(@, onset), !.lastOnset = Some(onset)]
             ELSE [acc EXCEPT !.detected = Append(@, [detectedMidi |-> detectedMidi,
                                                      onsetSongTimeSec |-> onsetSongTimeSec,
                                                      onset |-> onset]),
                              !.lastOnset = Some(onset)]
       IN ResolvePending(Tail(pend), next, curPitch, recentPitches,
                         playStartTimeSec, spd, inputOffsetSec)

\* A drain that hands the queued onset events over and keeps them queued.
drainOnsetsKeepsQueue(queue) == [events |-> queue, queue |-> queue]

\* audioInput.drainOnsets(): hands over every queued onset event and leaves
\* the queue empty.
drainOnsets(queue) == [events |-> queue, queue |-> <<>>]

\* Returns [detected, remaining, lastOnset]: the DetectedOnsets, the new
\* pendingOnsetsRef.current and the new lastOnsetRef.current.
drainDetectedOnsets(onsetEvents, curPitch, playStartTimeSec, spd, inputOffsetSec, recentPitches, pend, lastOn) ==
  LET pushed == IF onsetEvents # <<>>
                THEN KeepNewest(pend \o onsetEvents, MaxPending)
                ELSE pend
  IN IF pushed = <<>>
     THEN [detected |-> <<>>, remaining |-> pushed, lastOnset |-> lastOn]
     ELSE ResolvePending(pushed,
                         [detected |-> <<>>, remaining |-> <<>>, lastOnset |-> lastOn],
                         curPitch, recentPitches, playStartTimeSec, spd, inputOffsetSec)

\* --------------------------------------------------------- audio analysis
\* Times on the analysis side are held in samples: t seconds of audio are
\* t * sampleRate samples, so hopSamples / sampleRate seconds are hopSamples
\* samples and "x seconds > debounceMs / 1000" is
\* "x samples * 1000 > debounceMs * sampleRate".  -Infinity is Null.

\* new OnsetDetector(config)
NewOnsetDetector(config) ==
  [config |-> config,
   lastRmsDb |-> Null,
   lastOnsetTimeSec |-> Null,
   currentTimeSec |-> 0]

\* a - b > limit where b may be -Infinity
ExceedsBy(a, b, limit) == b = Null \/ a - Get(b) > limit

\* OnsetDetector.process(rmsDb) letting an onset through when exactly
\* debounceMs have passed since the last one
OnsetDetectorProcessAtDebounce(det, rmsDb) ==
  LET isAboveThreshold == rmsDb > det.config.thresholdDb
      isRising == ExceedsBy(rmsDb, det.lastRmsDb, det.config.riseThresholdDb)
      isDebounced ==
        \/ det.lastOnsetTimeSec = Null
        \/ (det.currentTimeSec - Get(det.lastOnsetTimeSec)) * 1000
             >= det.config.debounceMs * det.config.sampleRate
      isOnset == isAboveThreshold /\ isRising /\ isDebounced
      currentTimeSec == det.currentTimeSec + det.config.hopSamples
  IN [detector |-> [det EXCEPT !.lastRmsDb = Some(rmsDb),
                               !.currentTimeSec = currentTimeSec,
                               !.lastOnsetTimeSec =
                                 IF isOnset THEN Some(currentTimeSec) ELSE @],
      isOnset |-> isOnset]

\* OnsetDetector.process(rmsDb): the detector afterwards and the value returned
OnsetDetectorProcess(det, rmsDb) ==
  LET isAboveThreshold == rmsDb > det.config.thresholdDb
      isRising == ExceedsBy(rmsDb, det.lastRmsDb, det.config.riseThresholdDb)
      isDebounced ==
        \/ det.lastOnsetTimeSec = Null
        \/ (det.currentTimeSec - Get(det.lastOnsetTimeSec)) * 1000
             > det.config.debounceMs * det.config.sampleRate
      isOnset == isAboveThreshold /\ isRising /\ isDebounced
      currentTimeSec == det.currentTimeSec + det.config.hopSamples
  IN [detector |-> [det EXCEPT !.lastRmsDb = Some(rmsDb),
                               !.currentTimeSec = currentTimeSec,
                               !.lastOnsetTimeSec =
                                 IF isOnset THEN Some(currentTimeSec) ELSE @],
      isOnset |-> isOnset]

\* OnsetDetector.reset()
OnsetDetectorReset(det) ==
  [det EXCEPT !.lastRmsDb = Null, !.lastOnsetTimeSec = Null, !.currentTimeSec = 0]

\* RingBuffer: only the counters decide when frames are cut, so the sample
\* values and the write position (samplesWritten modulo the buffer length)
\* are left out.
NewRingBuffer(hopSize) ==
  [hopSize |-> hopSize, samplesWritten |-> 0, lastAnalysisIndex |-> 0]

RingWrite(ring, length) == [ring EXCEPT !.samplesWritten = @ + length]

isFrameReady(ring) == ring.samplesWritten - ring.lastAnalysisIndex >= ring.hopSize

getFrame(ring) == [ring EXCEPT !.lastAnalysisIndex = ring.samplesWritten]

\* YinDetector: the values of the cumulative mean normalized difference
\* (CMND) and the clarity are held in hundredths, so threshold 0.15 is 15.
\* Steps 1 and 2 of detect, which fill yinBuffer from the samples, are not
\* modelled: detect is given the CMND values of the frame.
YIN_THRESHOLD == 15
MIN_FREQUENCY == 60
MAX_FREQUENCY == 1500

\* new YinDetector(bufferSize, sampleRate)
NewYinDetector(bufferSize, sampleRate) ==
  [sampleRate |-> sampleRate,
   threshold |-> YIN_THRESHOLD,
   yinBuffer |-> [tau \in 0..(bufferSize \div 2 - 1) |-> 0]]

yinMinTau(yinDetector) == yinDetector.sampleRate \div MAX_FREQUENCY
yinMaxTau(yinDetector) ==
  Min(Cardinality(DOMAIN yinDetector.yinBuffer) - 1, yinDetector.sampleRate \div MIN_FREQUENCY)

\* while (tau + 1 < maxTau && yinBuffer[tau + 1] < yinBuffer[tau]) tau++
RECURSIVE LocalMinimumFrom(_, _, _)
LocalMinimumFrom(yinBuffer, tau, maxTau) ==
  IF tau + 1 < maxTau /\ yinBuffer[tau + 1] < yinBuffer[tau]
    THEN LocalMinimumFrom(yinBuffer, tau + 1, maxTau)
    ELSE tau

\* The first lag in [minTau, maxTau) whose value is below the threshold,
\* followed down to its local minimum; -1 if there is none.
thresholdCrossing(yinBuffer, minTau, maxTau, threshold) ==
  LET below == {t \in minTau..(maxTau - 1) : yinBuffer[t] < threshold}
  IN IF below = {} THEN -1
     ELSE LocalMinimumFrom(yinBuffer, CHOOSE t \in below : \A u \in below : t <= u, maxTau)

\* YinDetector.absoluteThreshold(minTau, maxTau) for minTau < maxTau
absoluteThreshold(yinBuffer, minTau, maxTau, threshold) ==
  LET crossing == thresholdCrossing(yinBuffer, minTau, maxTau, threshold)
      range == minTau..(maxTau - 1)
      minTauValue == CHOOSE t \in range :
                       /\ \A u \in range : yinBuffer[t] <= yinBuffer[u]
                       /\ \A u \in range : u < t => yinBuffer[u] > yinBuffer[t]
  IN IF crossing # -1 THEN crossing
     ELSE IF yinBuffer[minTauValue] < threshold * 2 THEN minTauValue
     ELSE -1

\* What detect returns for the lag found: frequency is sampleRate / tau
\* before the parabolic refinement of tau, which is left out.
YinResult(yinDetector, tau) ==
  IF tau = -1
    THEN [frequency |-> Null, clarity |-> 0]
    ELSE [frequency |-> Some(yinDetector.sampleRate \div tau),
          clarity |-> 100 - yinDetector.yinBuffer[tau]]

\* YinDetector.detect of the audio library, from step 3 on
YinDetect(yinDetector) ==
  YinResult(yinDetector,
            absoluteThreshold(yinDetector.yinBuffer, yinMinTau(yinDetector),
                              yinMaxTau(yinDetector), yinDetector.threshold))

\* YinDetector.detect of the worklet, from the threshold crossing on
WorkletYinDetect(yinDetector) ==
  YinResult(yinDetector,
            thresholdCrossing(yinDetector.yinBuffer, yinMinTau(yinDetector),
                              yinMaxTau(yinDetector), yinDetector.threshold))

\* PitchDetectorProcessor fields and options
SILENCE_DB == -100
messagesPerSecond == 30
onsetRiseDb == 6
DEFAULT_ONSET_THRESHOLD_DB == -40
DEFAULT_DEBOUNCE_MS == 50

\* opts.x || fallback: 0 counts as missing
OrDefault(option, fallback) == IF option = 0 THEN fallback ELSE option
DEFAULT_WINDOW_SIZE == 2048

\* new Float32Array(length) throws a RangeError for a negative length
Float32ArrayThrows(length) == length < 0

\* Whether new PitchDetectorProcessor({processorOptions: options}) throws:
\* the constructor checks nothing itself, and what it calls allocates
\* windowSize * 2 (RingBuffer), floor(windowSize / 2) (YinDetector) and
\* windowSize (frameBuffer) samples.
ProcessorConstructorThrows(options) ==
  LET windowSize == OrDefault(options.windowSize, DEFAULT_WINDOW_SIZE)
  IN \/ Float32ArrayThrows(windowSize * 2)
     \/ Float32ArrayThrows(windowSize \div 2)
     \/ Float32ArrayThrows(windowSize)

\* No pipeline set up yet.
NoPipeline == [options |-> Null, constructed |-> "no", draining |-> FALSE, drained |-> 0]

\* new PitchDetectorProcessor(options) in a context of the given sample
\* rate; posted counts the messages sent through the port, by type, and
\* frames the calls of analyzeFrame.
NewProcessor(sampleRate, hopSize) ==
  [sampleRate |-> sampleRate,
   currentFrame |-> 0,
   ringBuffer |-> NewRingBuffer(hopSize),
   lastRmsDb |-> SILENCE_DB,
   lastOnsetTime |-> Null,
   frameCount |-> 0,
   frames |-> 0,
   posted |-> [onset |-> 0, pitch |-> 0, level |-> 0]]

\* Math.floor((sampleRate / hopSize) / messagesPerSecond), both operands
\* being positive
framesPerMessage(sampleRate, hopSize) == sampleRate \div (hopSize * messagesPerSecond)

\* analyzeFrame() on a frame whose level is rmsDb
analyzeFrame(proc, rmsDb) ==
  LET isRising == rmsDb - proc.lastRmsDb > onsetRiseDb
      isAboveThreshold == rmsDb > DEFAULT_ONSET_THRESHOLD_DB
      isDebounced ==
        \/ proc.lastOnsetTime = Null
        \/ (proc.currentFrame - Get(proc.lastOnsetTime)) * 1000
             > DEFAULT_DEBOUNCE_MS * proc.sampleRate
      isOnset == isAboveThreshold /\ isRising /\ isDebounced
      frameCount == proc.frameCount + 1
      send == frameCount >= framesPerMessage(proc.sampleRate, proc.ringBuffer.hopSize)
  IN [proc EXCEPT
        !.lastOnsetTime = IF isOnset THEN Some(proc.currentFrame) ELSE @,
        !.lastRmsDb = rmsDb,
        !.frameCount = IF send THEN 0 ELSE frameCount,
        !.frames = @ + 1,
        !.posted = [onset |-> @.onset + (IF isOnset THEN 1 ELSE 0),
                    pitch |-> @.pitch + (IF send THEN 1 ELSE 0),
                    level |-> @.level + (IF send THEN 1 ELSE 0)]]

\* while (ringBuffer.isFrameReady()) { getFrame(frameBuffer); analyzeFrame() }
\* Every frame cut by one call is copied from the same samples, so all of
\* them have the level rmsDb.
RECURSIVE DrainFrames(_, _)
DrainFrames(proc, rmsDb) ==
  IF isFrameReady(proc.ringBuffer)
    THEN DrainFrames(analyzeFrame([proc EXCEPT !.ringBuffer = getFrame(@)], rmsDb), rmsDb)
    ELSE proc

\* process(inputs): input is the length of inputs[0][0], or Null when the
\* node has no input; the context's clock then moves on by the quantum.
ProcessorProcess(proc, input, quantum, rmsDb) ==
  LET heardProc == IF input = Null
                     THEN proc
                     ELSE DrainFrames([proc EXCEPT !.ringBuffer = RingWrite(@, Get(input))],
                                      rmsDb)
  IN [heardProc EXCEPT !.currentFrame = @ + quantum]

\* ------------------------------------------------------------------ state
VARIABLES
  now,                  \* the audio clock, audioContext.currentTime
  isRunning,            \* audioInput.isRunning
  tab,                  \* the tab given to the hook
  gameState,            \* gameStateRef
  playStartTime,        \* playStartTimeRef
  pausedAtTime,         \* pausedAtTimeRef
  pausedFromCountdown,  \* pausedFromCountdownRef
  speed,                \* speedRef
  lookAhead,            \* lookAheadRef
  loopConfig,           \* loopConfigRef, optional
  rafPending,           \* the callback whose id rafIdRef holds is pending
  rafOrphans,           \* pending callbacks whose id rafIdRef no longer holds
  onsetQueue,           \* onset events queued in the audio input
  currentPitch,         \* audioInput.currentPitch, optional
  pendingOnsets,        \* pendingOnsetsRef
  pitchHistory,         \* pitchHistoryRef
  lastPitchTimestamp,   \* lastPitchTimestampRef, optional (null is -Infinity)
  lastOnset,            \* lastOnsetRef, optional
  engine,               \* scoringEngineRef: the scoring engine's state
  lastOp,               \* history: the step taken last
  detectedOnsets,       \* history: the DetectedOnsets of the last frame
  staleOnsets,          \* history: onsets stamped before the last start, resume or
                        \* loop restart that were still queued or pending after it
  pauseSnapshot,        \* history: what the clock showed when pause took effect
  detector,             \* an OnsetDetector
  worklet,              \* the PitchDetectorProcessor of the analysis worklet
  heard,                \* history: the level last analysed and what it was taken for
  yin,                  \* a YinDetector
  pipeline              \* the analysis pipeline being set up: its options, and how far
                        \* the process call under way has come

transportVars == <<gameState, playStartTime, pausedAtTime, pausedFromCountdown, speed,
                   lookAhead, loopConfig, rafPending, rafOrphans>>
intakeVars == <<pendingOnsets, pitchHistory, lastPitchTimestamp, lastOnset>>
audioVars == <<now, isRunning, onsetQueue, currentPitch>>
historyVars == <<lastOp, detectedOnsets, staleOnsets, pauseSnapshot>>
analysisVars == <<detector, worklet, heard, yin, pipeline>>
vars == <<tab, transportVars, intakeVars, audioVars, engine, historyVars, analysisVars>>

allNotes == prepareRenderNotes(tab)
tabDuration == getTabDuration(tab)
countdownDone(elapsedSec) == CountdownIsDone(tab.bpm, COUNTDOWN_BEATS, elapsedSec)

\* audioInputRef.current.inputOffsetSec ?? 0: the audio input of this
\* repository has no such field.
InputOffsetSec == 0

\* Values the callers pass to setSpeed, setLookAhead and setLoopSection.
SpeedInputs == {4, 9}
LookAheadInputs == {1, 4}
SectionInputs == {"s1", "s2", "zz"}

\* What the analysis worklet reports: no pitch, or a clear one.
PitchReadings == {[midi |-> Null, clarity |-> 0],
                  [midi |-> Some(64), clarity |-> 9]}

\* The configuration the onset detector's comments call typical, at the
\* hop the worklet uses by default.
DEFAULT_SAMPLE_RATE == 48000
DEFAULT_HOP_SIZE == 512
DetectorConfig(sampleRate, hopSamples) ==
  [thresholdDb |-> DEFAULT_ONSET_THRESHOLD_DB, riseThresholdDb |-> onsetRiseDb,
   debounceMs |-> DEFAULT_DEBOUNCE_MS, sampleRate |-> sampleRate, hopSamples |-> hopSamples]
DefaultDetectorConfig == DetectorConfig(DEFAULT_SAMPLE_RATE, DEFAULT_HOP_SIZE)

\* The window of the YinDetector, in samples.
YinWindow == 10

\* The analysis side as constructed, with nothing heard yet.
InitAnalysis(config, sampleRate, hopSize) ==
  /\ detector = NewOnsetDetector(config)
  /\ worklet = NewProcessor(sampleRate, hopSize)
  /\ heard = Null
  /\ yin = NewYinDetector(YinWindow, sampleRate)
  /\ pipeline = NoPipeline

\* The hook as constructed for tab t, with the audio input running or not
\* and the loop section chosen before the first start.
InitWith(t, running, loop) ==
  /\ now = 0
  /\ isRunning = running
  /\ tab = t
  /\ gameState = "idle"
  /\ playStartTime = 0
  /\ pausedAtTime = 0
  /\ pausedFromCountdown = FALSE
  /\ speed = DEFAULT_SPEED
  /\ lookAhead = DEFAULT_LOOK_AHEAD_SEC
  /\ loopConfig = loop
  /\ rafPending = FALSE
  /\ rafOrphans = 0
  /\ onsetQueue = <<>>
  /\ currentPitch = Null
  /\ pendingOnsets = <<>>
  /\ pitchHistory = <<>>
  /\ lastPitchTimestamp = Null
  /\ lastOnset = Null
  /\ engine = NewScoringEngine
  /\ lastOp = "init"
  /\ detectedOnsets = <<>>
  /\ staleOnsets = {}
  /\ pauseSnapshot = Null
  /\ InitAnalysis(DefaultDetectorConfig, DEFAULT_SAMPLE_RATE, DEFAULT_HOP_SIZE)

\* The hook constructed with config.initialSpeed given: the value goes into
\* speedRef as it is.
InitWithSpeed(t, running, loop, initialSpeed) ==
  /\ now = 0
  /\ isRunning = running
  /\ tab = t
  /\ gameState = "idle"
  /\ playStartTime = 0
  /\ pausedAtTime = 0
  /\ pausedFromCountdown = FALSE
  /\ speed = initialSpeed
  /\ lookAhead = DEFAULT_LOOK_AHEAD_SEC
  /\ loopConfig = loop
  /\ rafPending = FALSE
  /\ rafOrphans = 0
  /\ onsetQueue = <<>>
  /\ currentPitch = Null
  /\ pendingOnsets = <<>>
  /\ pitchHistory = <<>>
  /\ lastPitchTimestamp = Null
  /\ lastOnset = Null
  /\ engine = NewScoringEngine
  /\ lastOp = "init"
  /\ detectedOnsets = <<>>
  /\ staleOnsets = {}
  /\ pauseSnapshot = Null
  /\ InitAnalysis(DefaultDetectorConfig, DEFAULT_SAMPLE_RATE, DEFAULT_HOP_SIZE)

Init == InitWith(TabRegular, FALSE, Null)

Range(f) == {f[i] : i \in DOMAIN f}

\* The onsets of the queue and the pending list stamped before audio time t.
StampedBefore(t, queue, pend) ==
  {o \in Range(queue) \cup Range(pend) : o.timestampSec < t}

\* ------------------------------------------------------------ environment
\* The audio clock advances.
Tick ==
  /\ now < MaxTime
  /\ now' = now + 1
  /\ lastOp' = "env"
  /\ detectedOnsets' = <<>>
  /\ UNCHANGED analysisVars
  /\ UNCHANGED <<tab, transportVars, intakeVars, isRunning, onsetQueue, currentPitch,
                 engine, staleOnsets, pauseSnapshot>>

\* audioInput.start() succeeds.
StartAudio ==
  /\ ~isRunning
  /\ isRunning' = TRUE
  /\ lastOp' = "env"
  /\ detectedOnsets' = <<>>
  /\ UNCHANGED analysisVars
  /\ UNCHANGED <<tab, transportVars, intakeVars, now, onsetQueue, currentPitch,
                 engine, staleOnsets, pauseSnapshot>>

\* The worklet posts a pitch sample stamped with the audio clock.
PitchArrives ==
  /\ isRunning
  /\ Len(pitchHistory) < MaxHistory
  /\ \E r \in PitchReadings :
       currentPitch' = Some([timestampSec |-> now, midi |-> r.midi, clarity |-> r.clarity])
  /\ currentPitch' # currentPitch
  /\ lastOp' = "env"
  /\ detectedOnsets' = <<>>
  /\ UNCHANGED analysisVars
  /\ UNCHANGED <<tab, transportVars, intakeVars, now, isRunning, onsetQueue,
                 engine, staleOnsets, pauseSnapshot>>

\* The worklet posts an onset event stamped with the audio clock; the audio
\* input queues it until the next drainOnsets().
OnsetArrives ==
  /\ isRunning
  /\ Len(onsetQueue) + Len(pendingOnsets) < MaxQueue
  /\ \E r \in PitchReadings :
       onsetQueue' = Append(onsetQueue,
                            [timestampSec |-> now, midi |-> r.midi, clarity |-> r.clarity])
  /\ lastOp' = "env"
  /\ detectedOnsets' = <<>>
  /\ UNCHANGED analysisVars
  /\ UNCHANGED <<tab, transportVars, intakeVars, now, isRunning, currentPitch,
                 engine, staleOnsets, pauseSnapshot>>

\* ------------------------------------------------------- control signals
\* scheduleNextFrame() called from a control handler: rafIdRef takes the new
\* id; a callback that was pending under the old id stays pending.
CanSchedule == rafPending => rafOrphans < MaxOrphans

ScheduleNextFrame ==
  /\ rafPending' = TRUE
  /\ rafOrphans' = IF rafPending THEN rafOrphans + 1 ELSE rafOrphans

\* cancelAnimationFrame(rafIdRef.current)
CancelFrame ==
  /\ rafPending' = FALSE
  /\ rafOrphans' = rafOrphans

Start ==
  /\ CanSchedule
  /\ IF ~isRunning
     THEN /\ lastOp' = "ignored"
          /\ UNCHANGED <<transportVars, intakeVars, onsetQueue, engine, staleOnsets>>
     ELSE /\ onsetQueue' = drainOnsets(onsetQueue).queue
          /\ pendingOnsets' = <<>>
          /\ pitchHistory' = <<>>
          /\ lastPitchTimestamp' = Null
          /\ gameState' = "countdown"
          /\ playStartTime' = now
          /\ engine' = reset(engine)
          /\ lastOnset' = Null
          /\ ScheduleNextFrame
          /\ lastOp' = "start"
          /\ staleOnsets' = StampedBefore(now, onsetQueue', pendingOnsets')
          /\ UNCHANGED <<pausedAtTime, pausedFromCountdown, speed, lookAhead, loopConfig>>
  /\ detectedOnsets' = <<>>
  /\ pauseSnapshot' = Null
  /\ UNCHANGED analysisVars
  /\ UNCHANGED <<tab, now, isRunning, currentPitch>>

Pause ==
  /\ IF ~isActiveGameplayState(gameState)
     THEN /\ lastOp' = "ignored"
          /\ UNCHANGED <<transportVars, intakeVars, onsetQueue, pauseSnapshot>>
     ELSE /\ pausedFromCountdown' = (gameState = "countdown")
          /\ gameState' = "paused"
          /\ pausedAtTime' = now
          /\ CancelFrame
          /\ onsetQueue' = drainOnsets(onsetQueue).queue
          /\ pendingOnsets' = <<>>
          /\ lastOnset' = Null
          /\ lastOp' = "pause"
          /\ pauseSnapshot' = Some([from |-> gameState,
                                    songTimeSec |-> getSongTimeSec(now, playStartTime, speed),
                                    elapsedSec |-> now - playStartTime])
          /\ UNCHANGED <<playStartTime, speed, lookAhead, loopConfig,
                         pitchHistory, lastPitchTimestamp>>
  /\ detectedOnsets' = <<>>
  /\ UNCHANGED analysisVars
  /\ UNCHANGED <<tab, now, isRunning, currentPitch, engine, staleOnsets>>

Resume ==
  /\ gameState = "paused" => CanSchedule
  /\ IF gameState # "paused"
     THEN /\ lastOp' = "ignored"
          /\ UNCHANGED <<transportVars, intakeVars, onsetQueue, staleOnsets>>
     ELSE /\ onsetQueue' = drainOnsets(onsetQueue).queue
          /\ pendingOnsets' = <<>>
          /\ lastOnset' = Null
          /\ playStartTime' = applyPauseToPlayStart(playStartTime, pausedAtTime, now)
          /\ gameState' = IF pausedFromCountdown THEN "countdown" ELSE "playing"
          /\ ScheduleNextFrame
          /\ lastOp' = "resume"
          /\ staleOnsets' = StampedBefore(now, onsetQueue', pendingOnsets')
          /\ UNCHANGED <<pausedAtTime, pausedFromCountdown, speed, lookAhead, loopConfig,
                         pitchHistory, lastPitchTimestamp>>
  /\ detectedOnsets' = <<>>
  /\ UNCHANGED analysisVars
  /\ UNCHANGED <<tab, now, isRunning, currentPitch, engine, pauseSnapshot>>

Stop ==
  /\ CancelFrame
  /\ gameState' = "idle"
  /\ onsetQueue' = drainOnsets(onsetQueue).queue
  /\ pendingOnsets' = <<>>
  /\ engine' = reset(engine)
  /\ lastOnset' = Null
  /\ lastOp' = "stop"
  /\ detectedOnsets' = <<>>
  /\ pauseSnapshot' = Null
  /\ UNCHANGED analysisVars
  /\ UNCHANGED <<tab, now, isRunning, currentPitch, playStartTime, pausedAtTime,
                 pausedFromCountdown, speed, lookAhead, loopConfig, pitchHistory,
                 lastPitchTimestamp, staleOnsets>>

SetSpeed ==
  /\ \E x \in SpeedInputs : speed' = Max(MIN_SPEED, Min(MAX_SPEED, x))
  /\ lastOp' = "set"
  /\ detectedOnsets' = <<>>
  /\ UNCHANGED analysisVars
  /\ UNCHANGED <<tab, gameState, playStartTime, pausedAtTime, pausedFromCountdown,
                 lookAhead, loopConfig, rafPending, rafOrphans,
                 intakeVars, audioVars, engine, staleOnsets, pauseSnapshot>>

SetLookAhead ==
  /\ \E x \in LookAheadInputs :
       lookAhead' = Max(MIN_LOOK_AHEAD_SEC, Min(MAX_LOOK_AHEAD_SEC, x))
  /\ lastOp' = "set"
  /\ detectedOnsets' = <<>>
  /\ UNCHANGED analysisVars
  /\ UNCHANGED <<tab, gameState, playStartTime, pausedAtTime, pausedFromCountdown,
                 speed, loopConfig, rafPending, rafOrphans,
                 intakeVars, audioVars, engine, staleOnsets, pauseSnapshot>>

\* setLoopSection(null)
ClearLoopSection ==
  /\ loopConfig' = Null
  /\ lastOp' = "set"
  /\ detectedOnsets' = <<>>
  /\ UNCHANGED analysisVars
  /\ UNCHANGED <<tab, gameState, playStartTime, pausedAtTime, pausedFromCountdown,
                 speed, lookAhead, rafPending, rafOrphans,
                 intakeVars, audioVars, engine, staleOnsets, pauseSnapshot>>

\* setLoopSection(sectionId)
SetLoopSection ==
  /\ \E sectionId \in SectionInputs :
       LET newLoopConfig == buildLoopConfig(tab, sectionId) IN
       IF newLoopConfig = Null
       THEN /\ loopConfig' = loopConfig
            /\ lastOp' = "ignored"
       ELSE /\ loopConfig' = newLoopConfig
            /\ lastOp' = "set"
  /\ detectedOnsets' = <<>>
  /\ UNCHANGED analysisVars
  /\ UNCHANGED <<tab, gameState, playStartTime, pausedAtTime, pausedFromCountdown,
                 speed, lookAhead, rafPending, rafOrphans,
                 intakeVars, audioVars, engine, staleOnsets, pauseSnapshot>>

\* ----------------------------------------------------------- frame callback
\* The pitch tracking at the head of gameLoop: [history, last].
TrackPitch(curPitch, history, last) ==
  IF curPitch # Null /\ (last = Null \/ Get(curPitch).timestampSec > Get(last))
  THEN [history |-> KeepNewest(Append(history, Get(curPitch)), MaxPitchHistory),
        last |-> Some(Get(curPitch).timestampSec)]
  ELSE [history |-> history, last |-> last]

\* The callback that runs is no longer pending; it may call
\* scheduleNextFrame(), which stores a new id in rafIdRef.
FrameRan(latest, reschedule) ==
  LET stillPending == IF latest THEN FALSE ELSE rafPending
      orphans == IF latest THEN rafOrphans ELSE rafOrphans - 1
  IN IF reschedule
     THEN /\ rafPending' = TRUE
          /\ rafOrphans' = IF stillPending THEN orphans + 1 ELSE orphans
     ELSE /\ rafPending' = stillPending
          /\ rafOrphans' = orphans

\* gameLoop while gameStateRef is 'countdown'
FrameCountdown(latest) ==
  /\ gameState = "countdown"
  /\ onsetQueue' = drainOnsets(onsetQueue).queue
  /\ pendingOnsets' = <<>>
  /\ IF countdownDone(now - playStartTime)
     THEN /\ gameState' = "playing"
          /\ playStartTime' =
               getPlayStartTimeForSongTime(now, getLoopStartSec(loopConfig), speed)
          /\ lastOp' = "frameCountdownDone"
     ELSE /\ lastOp' = "frameCountdown"
          /\ UNCHANGED <<gameState, playStartTime>>
  /\ FrameRan(latest, TRUE)
  /\ detectedOnsets' = <<>>
  /\ UNCHANGED <<lastOnset, engine, staleOnsets>>

\* gameLoop while gameStateRef is 'playing'
FramePlaying(latest, history) ==
  /\ gameState = "playing"
  /\ LET songTimeSec == getSongTimeSec(now, playStartTime, speed) IN
     IF loopConfig # Null /\ shouldRestartLoop(loopConfig, songTimeSec)
     THEN LET restart == computeLoopRestart(now, loopConfig, speed) IN
          /\ onsetQueue' = drainOnsets(onsetQueue).queue
          /\ playStartTime' = restart.playStartTimeSec
          /\ engine' = reset(engine)
          /\ lastOnset' = Null
          /\ FrameRan(latest, TRUE)
          /\ lastOp' = "frameLoopRestart"
          /\ detectedOnsets' = <<>>
          /\ staleOnsets' = StampedBefore(now, onsetQueue', pendingOnsets)
          /\ UNCHANGED <<gameState, pendingOnsets>>
     ELSE IF songTimeSec >= tabDuration
     THEN /\ gameState' = "finished"
          /\ FrameRan(latest, FALSE)
          /\ lastOp' = "frameFinished"
          /\ detectedOnsets' = <<>>
          /\ UNCHANGED <<onsetQueue, playStartTime, engine, lastOnset, pendingOnsets,
                         staleOnsets>>
     ELSE LET drained == drainOnsets(onsetQueue)
              intake == drainDetectedOnsets(drained.events, currentPitch, playStartTime,
                                            speed, InputOffsetSec, history,
                                            pendingOnsets, lastOnset)
          IN /\ onsetQueue' = drained.queue
             /\ pendingOnsets' = intake.remaining
             /\ lastOnset' = intake.lastOnset
             /\ engine' = scoreFrame(engine, intake.detected, songTimeSec, allNotes)
             /\ FrameRan(latest, TRUE)
             /\ lastOp' = "framePlaying"
             /\ detectedOnsets' = intake.detected
             /\ UNCHANGED <<gameState, playStartTime, staleOnsets>>

\* gameLoop in any other state: only the pitch tracking runs.
FrameInactive(latest) ==
  /\ gameState \notin {"countdown", "playing"}
  /\ FrameRan(latest, FALSE)
  /\ lastOp' = "frameInactive"
  /\ detectedOnsets' = <<>>
  /\ UNCHANGED <<gameState, playStartTime, onsetQueue, pendingOnsets,
                 lastOnset, engine, staleOnsets>>

\* One pending frame callback runs gameLoop.
Frame ==
  \E latest \in BOOLEAN :
    /\ IF latest THEN rafPending ELSE rafOrphans > 0
    /\ LET tracked == TrackPitch(currentPitch, pitchHistory, lastPitchTimestamp) IN
       /\ pitchHistory' = tracked.history
       /\ lastPitchTimestamp' = tracked.last
       /\ \/ FrameCountdown(latest)
          \/ FramePlaying(latest, tracked.history)
          \/ FrameInactive(latest)
    /\ pauseSnapshot' = IF gameState = "paused" THEN pauseSnapshot ELSE Null
    /\ UNCHANGED analysisVars
    /\ UNCHANGED <<tab, now, isRunning, currentPitch, pausedAtTime, pausedFromCountdown,
                   speed, lookAhead, loopConfig>>

\* The transport alone: the audio input delivers no pitch sample and no onset.
NextTransport ==
  \/ Tick
  \/ StartAudio
  \/ Start
  \/ Pause
  \/ Resume
  \/ Stop
  \/ SetSpeed
  \/ SetLookAhead
  \/ ClearLoopSection
  \/ SetLoopSection
  \/ Frame

SpecTransport == Init /\ [][NextTransport]_vars

\* The transport given any of the tabs the validator accepts.
InitAnyTab == \E t \in Tabs : InitWith(t, FALSE, Null)

SpecTransportAnyTab == InitAnyTab /\ [][NextTransport]_vars

\* A practice session on the first section, played through without pausing:
\* the audio input runs and delivers pitch samples and onsets, the loop was
\* set before the start.
InitIntake == InitWith(TabRegular, TRUE, buildLoopConfig(TabRegular, "s1"))

NextIntake ==
  \/ Tick
  \/ PitchArrives
  \/ OnsetArrives
  \/ Start
  \/ Stop
  \/ Frame

SpecIntake == InitIntake /\ [][NextIntake]_vars

\* Playing inside the loop over the last section, with the audio input
\* running: the notes before the loop fall due while onsets arrive.
\* The worklet reports no pitch sample here; an onset is scored with its own
\* midi or stays unresolved.
InitIntakeLate == InitWith(TabRegular, TRUE, buildLoopConfig(TabRegular, "s2"))

NextIntakeLate ==
  \/ Tick
  \/ OnsetArrives
  \/ Start
  \/ Stop
  \/ Frame

SpecIntakeLate == InitIntakeLate /\ [][NextIntakeLate]_vars

\* A song played through without a loop: the audio input runs and delivers
\* onsets, and the speed may be changed.
InitPlaythrough == InitWith(TabMatch, TRUE, Null)

NextPlaythrough ==
  \/ Tick
  \/ OnsetArrives
  \/ Start
  \/ Stop
  \/ SetSpeed
  \/ Frame

SpecPlaythrough == InitPlaythrough /\ [][NextPlaythrough]_vars

\* A song played through at double speed from the start (initialSpeed 2.0),
\* with pitch samples and onsets arriving: an onset without a pitch of its
\* own waits for a sample while the frames go on.
InitDeferred == InitWithSpeed(TabMatch, TRUE, Null, MAX_SPEED)

NextDeferred ==
  \/ Tick
  \/ PitchArrives
  \/ OnsetArrives
  \/ Start
  \/ Stop
  \/ Frame

SpecDeferred == InitDeferred /\ [][NextDeferred]_vars

\* A song started, restarted, paused and resumed while the audio input runs
\* and delivers onsets in every transport state, the idle one included.
InitStage == InitWith(TabMatch, TRUE, Null)

NextStage ==
  \/ Tick
  \/ OnsetArrives
  \/ Start
  \/ Pause
  \/ Resume
  \/ Frame

SpecStage == InitStage /\ [][NextStage]_vars

\* The hook created with any initialSpeed its configuration may carry: the
\* default, and 3.0, which setSpeed would clamp to 2.0.
InitialSpeeds == {DEFAULT_SPEED, 12}

InitConfigured == \E initialSpeed \in InitialSpeeds : InitWithSpeed(TabMatch, TRUE, Null, initialSpeed)

NextConfigured ==
  \/ Tick
  \/ Start
  \/ Pause
  \/ Resume
  \/ SetSpeed
  \/ Frame

SpecConfigured == InitConfigured /\ [][NextConfigured]_vars

\* ------------------------------------------------- the scoring engine alone
\* The DetectedOnsets handed to one processDetectedOnsets call.
DetectedInputs ==
  LET one == [detectedMidi : {Null, Some(64)},
              onsetSongTimeSec : {t \in 0..MaxSongTime : t % 6 = 0}]
  IN {<<d>> : d \in one}
     \cup {<<d, e>> : d \in one, e \in one}

CallProcessDetectedOnsets ==
  /\ \E ds \in DetectedInputs :
       engine' = processDetectedOnsets(engine, ds, allNotes)
  /\ detectedOnsets' = <<>>
  /\ lastOp' = "processDetectedOnsets"
  /\ UNCHANGED analysisVars
  /\ UNCHANGED <<tab, transportVars, intakeVars, audioVars, staleOnsets, pauseSnapshot>>

CallProcessMisses ==
  /\ \E songTimeSec \in 0..MaxSongTime :
       engine' = processMisses(engine, songTimeSec, allNotes)
  /\ lastOp' = "processMisses"
  /\ detectedOnsets' = <<>>
  /\ UNCHANGED analysisVars
  /\ UNCHANGED <<tab, transportVars, intakeVars, audioVars, staleOnsets, pauseSnapshot>>

CallReset ==
  /\ engine' = reset(engine)
  /\ lastOp' = "reset"
  /\ detectedOnsets' = <<>>
  /\ UNCHANGED analysisVars
  /\ UNCHANGED <<tab, transportVars, intakeVars, audioVars, staleOnsets, pauseSnapshot>>

NextScoring ==
  \/ CallProcessDetectedOnsets
  \/ CallProcessMisses
  \/ CallReset

InitScoring == InitWith(TabDense, TRUE, Null)

SpecScoring == InitScoring /\ [][NextScoring]_vars

\* ------------------------------------------------- the intake driven alone
\* One intake pass of the Playing frame (pitch tracking, then
\* drainDetectedOnsets) on a chosen ring of pitch samples and a chosen onset;
\* the pass runs at audio time MaxTime, every timestamp lies in the past.
MaxRing == 2

\* Pitch samples: no midi, an unclear midi, two clear ones.
SampleReadings == {[midi |-> Null, clarity |-> 9],
                   [midi |-> Some(64), clarity |-> 3],
                   [midi |-> Some(64), clarity |-> 9],
                   [midi |-> Some(66), clarity |-> 9]}

\* Onset events: no embedded midi, an unclear one, a clear one.
OnsetReadings == {[midi |-> Null, clarity |-> 0],
                  [midi |-> Some(62), clarity |-> 3],
                  [midi |-> Some(62), clarity |-> 9]}

Stamped(readings, times) ==
  {[timestampSec |-> t, midi |-> r.midi, clarity |-> r.clarity] :
     t \in times, r \in readings}

\* The rings the pitch tracking can build: at most n samples, each newer than
\* the one before it.
RECURSIVE RingsUpTo(_)
RingsUpTo(n) ==
  IF n = 0 THEN {<<>>}
  ELSE LET shorter == RingsUpTo(n - 1)
           longer == {q \in shorter \X Stamped(SampleReadings, 0..MaxTime) :
                        q[1] = <<>> \/ q[1][Len(q[1])].timestampSec < q[2].timestampSec}
       IN shorter \cup {Append(q[1], q[2]) : q \in longer}

\* The newest sample of the ring is the current pitch and is not tracked yet.
InitIntakePass ==
  \E ring \in RingsUpTo(MaxRing), onset \in Stamped(OnsetReadings, 0..MaxTime) :
    /\ now = MaxTime
    /\ isRunning = TRUE
    /\ tab = TabRegular
    /\ gameState = "idle"
    /\ playStartTime = 0
    /\ pausedAtTime = 0
    /\ pausedFromCountdown = FALSE
    /\ speed = DEFAULT_SPEED
    /\ lookAhead = DEFAULT_LOOK_AHEAD_SEC
    /\ loopConfig = Null
    /\ rafPending = FALSE
    /\ rafOrphans = 0
    /\ onsetQueue = <<onset>>
    /\ currentPitch = IF ring = <<>> THEN Null ELSE Some(ring[Len(ring)])
    /\ pendingOnsets = <<>>
    /\ pitchHistory = IF ring = <<>> THEN <<>> ELSE SubSeq(ring, 1, Len(ring) - 1)
    /\ lastPitchTimestamp = IF Len(ring) < 2 THEN Null
                            ELSE Some(ring[Len(ring) - 1].timestampSec)
    /\ lastOnset = Null
    /\ engine = NewScoringEngine
    /\ lastOp = "init"
    /\ detectedOnsets = <<>>
    /\ staleOnsets = {}
    /\ pauseSnapshot = Null
    /\ InitAnalysis(DefaultDetectorConfig, DEFAULT_SAMPLE_RATE, DEFAULT_HOP_SIZE)

CallDrainDetectedOnsets ==
  LET tracked == TrackPitch(currentPitch, pitchHistory, lastPitchTimestamp)
      drained == drainOnsets(onsetQueue)
      intake == drainDetectedOnsets(drained.events, currentPitch, playStartTime,
                                    speed, InputOffsetSec, tracked.history,
                                    pendingOnsets, lastOnset)
  IN /\ pitchHistory' = tracked.history
     /\ lastPitchTimestamp' = tracked.last
     /\ onsetQueue' = drained.queue
     /\ pendingOnsets' = intake.remaining
     /\ lastOnset' = intake.lastOnset
     /\ detectedOnsets' = intake.detected
     /\ lastOp' = "drainDetectedOnsets"
     /\ UNCHANGED analysisVars
     /\ UNCHANGED <<tab, transportVars, now, isRunning, currentPitch, engine,
                    staleOnsets, pauseSnapshot>>

NextIntakePass == CallDrainDetectedOnsets

SpecIntakePass == InitIntakePass /\ [][NextIntakePass]_vars

\* ------------------------------------------------ the buffers at capacity
\* The intake pass under a long run of pitch samples and bursts of onsets.
\* The samples carry no midi and the onsets only an unclear one, so every
\* onset waits in the unresolved queue until the ring has moved on by
\* MAX_WAIT_SEC.
MaxSamples == 122
MaxBurst == 30
\* The player is silent for the first QuietSamples sample periods, while the
\* ring fills.
QuietSamples == 114

\* The worklet posts the next pitch sample once the frame has tracked the
\* one before it.
PitchSampled ==
  /\ now < MaxSamples
  /\ currentPitch # Null => lastPitchTimestamp = Some(Get(currentPitch).timestampSec)
  /\ now' = now + 1
  /\ currentPitch' = Some([timestampSec |-> now + 1, midi |-> Null, clarity |-> 0])
  /\ lastOp' = "env"
  /\ detectedOnsets' = <<>>
  /\ UNCHANGED analysisVars
  /\ UNCHANGED <<tab, transportVars, intakeVars, isRunning, onsetQueue, engine,
                 staleOnsets, pauseSnapshot>>

\* The worklet posts MaxBurst onsets between two frames, once per sample
\* period.
OnsetBurst ==
  /\ now >= QuietSamples
  /\ onsetQueue = <<>>
  /\ \A i \in DOMAIN pendingOnsets : pendingOnsets[i].timestampSec < now
  /\ lastOnset # Null => Get(lastOnset).timestampSec < now
  /\ onsetQueue' = [i \in 1..MaxBurst |->
                      [timestampSec |-> now, midi |-> Some(i), clarity |-> 0]]
  /\ lastOp' = "env"
  /\ detectedOnsets' = <<>>
  /\ UNCHANGED analysisVars
  /\ UNCHANGED <<tab, transportVars, intakeVars, now, isRunning, currentPitch, engine,
                 staleOnsets, pauseSnapshot>>

NextCapacity ==
  \/ PitchSampled
  \/ OnsetBurst
  \/ CallDrainDetectedOnsets

InitCapacity == InitWith(TabRegular, TRUE, Null)

SpecCapacity == InitCapacity /\ [][NextCapacity]_vars

\* ------------------------------------------- timing windows, in milliseconds
\* One onset matched against one pending single note, with times in
\* milliseconds and the tolerances as the source gives them.
MaxOffsetMs == 202

TIMING_TOLERANCES_MS == [perfectMs |-> 50, goodMs |-> 100, okMs |-> 200]

TimingNote ==
  [eventId |-> "e1", noteIndex |-> 0, timeSec |-> 1000, midi |-> 64, isChord |-> FALSE]

\* The onset to score: the note's pitch, its octave below, or a wrong pitch,
\* up to MaxOffsetMs before or after the note.
OffsetInputs ==
  [detectedMidi : {Some(64), Some(52), Some(70)},
   onsetSongTimeSec : (TimingNote.timeSec - MaxOffsetMs)..(TimingNote.timeSec + MaxOffsetMs)]

\* A fresh engine and one DetectedOnset waiting to be scored.
InitTiming ==
  \E d \in OffsetInputs :
    /\ now = 0
    /\ isRunning = TRUE
    /\ tab = TabRegular
    /\ gameState = "idle"
    /\ playStartTime = 0
    /\ pausedAtTime = 0
    /\ pausedFromCountdown = FALSE
    /\ speed = DEFAULT_SPEED
    /\ lookAhead = DEFAULT_LOOK_AHEAD_SEC
    /\ loopConfig = Null
    /\ rafPending = FALSE
    /\ rafOrphans = 0
    /\ onsetQueue = <<>>
    /\ currentPitch = Null
    /\ pendingOnsets = <<>>
    /\ pitchHistory = <<>>
    /\ lastPitchTimestamp = Null
    /\ lastOnset = Null
    /\ engine = NewScoringEngine
    /\ lastOp = "init"
    /\ detectedOnsets = <<d>>
    /\ staleOnsets = {}
    /\ pauseSnapshot = Null
    /\ InitAnalysis(DefaultDetectorConfig, DEFAULT_SAMPLE_RATE, DEFAULT_HOP_SIZE)

\* The body of processDetectedOnsets for the waiting onset, with the single
\* note TimingNote as the schedule.
CallFindMatchingNotes ==
  /\ lastOp = "init"
  /\ LET detected == detectedOnsets[1]
         matches == findMatchingNotes(detected.detectedMidi, detected.onsetSongTimeSec,
                                      PendingNotes(engine, <<TimingNote>>),
                                      TIMING_TOLERANCES_MS)
     IN engine' = ApplyMatches(engine, matches)
  /\ lastOp' = "findMatchingNotes"
  /\ UNCHANGED analysisVars
  /\ UNCHANGED <<tab, transportVars, intakeVars, audioVars, detectedOnsets,
                 staleOnsets, pauseSnapshot>>

NextTiming == CallFindMatchingNotes

SpecTiming == InitTiming /\ [][NextTiming]_vars

\* --------------------------------------------- one onset against the schedule
\* processDetectedOnsets for one DetectedOnset of any pitch and song time,
\* on an engine that has or has not already given Misses.
MaxMatchTime == 41
MidiSpan == 15

MatchInputs ==
  [detectedMidi : {Null} \cup {Some(m) : m \in (52 - MidiSpan)..(52 + MidiSpan)},
   onsetSongTimeSec : 0..MaxMatchTime]

\* The song times of the processMisses call that came before the onset.
EarlierCycles == {0, 17, MaxMatchTime}

InitMatch ==
  \E d \in MatchInputs, songTimeSec \in EarlierCycles :
    /\ now = 0
    /\ isRunning = TRUE
    /\ tab = TabMatch
    /\ gameState = "idle"
    /\ playStartTime = 0
    /\ pausedAtTime = 0
    /\ pausedFromCountdown = FALSE
    /\ speed = DEFAULT_SPEED
    /\ lookAhead = DEFAULT_LOOK_AHEAD_SEC
    /\ loopConfig = Null
    /\ rafPending = FALSE
    /\ rafOrphans = 0
    /\ onsetQueue = <<>>
    /\ currentPitch = Null
    /\ pendingOnsets = <<>>
    /\ pitchHistory = <<>>
    /\ lastPitchTimestamp = Null
    /\ lastOnset = Null
    /\ engine = processMisses(NewScoringEngine, songTimeSec, prepareRenderNotes(TabMatch))
    /\ lastOp = "init"
    /\ detectedOnsets = <<d>>
    /\ staleOnsets = {}
    /\ pauseSnapshot = Null
    /\ InitAnalysis(DefaultDetectorConfig, DEFAULT_SAMPLE_RATE, DEFAULT_HOP_SIZE)

CallScoreOnset ==
  /\ lastOp = "init"
  /\ engine' = processDetectedOnsets(engine, detectedOnsets, allNotes)
  /\ lastOp' = "processDetectedOnsets"
  /\ UNCHANGED analysisVars
  /\ UNCHANGED <<tab, transportVars, intakeVars, audioVars, detectedOnsets,
                 staleOnsets, pauseSnapshot>>

NextMatch == CallScoreOnset

SpecMatch == InitMatch /\ [][NextMatch]_vars

\* ------------------------------------------------- the score fold alone
\* applyHitResult applied to the ScoreState left by a run of Perfects, then
\* possibly a Miss, then a run of Goods.
MaxRun == 31

RECURSIVE FoldRun(_, _, _)
FoldRun(state, result, n) ==
  IF n = 0 THEN state
  ELSE LET next == applyHitResult(state, result) IN
       IF next.streak >= 0 THEN FoldRun(next, result, n - 1) ELSE next

ScoreStateAfter(perfects, misses, goods) ==
  FoldRun(FoldRun(FoldRun(INITIAL_SCORE_STATE, "perfect", perfects), "miss", misses),
          "good", goods)

ScoreResults == {"perfect", "good", "ok", "miss"}

InitFold ==
  \E perfects \in 0..MaxRun, misses \in 0..1, goods \in 0..MaxRun :
    /\ now = 0
    /\ isRunning = TRUE
    /\ tab = TabRegular
    /\ gameState = "idle"
    /\ playStartTime = 0
    /\ pausedAtTime = 0
    /\ pausedFromCountdown = FALSE
    /\ speed = DEFAULT_SPEED
    /\ lookAhead = DEFAULT_LOOK_AHEAD_SEC
    /\ loopConfig = Null
    /\ rafPending = FALSE
    /\ rafOrphans = 0
    /\ onsetQueue = <<>>
    /\ currentPitch = Null
    /\ pendingOnsets = <<>>
    /\ pitchHistory = <<>>
    /\ lastPitchTimestamp = Null
    /\ lastOnset = Null
    /\ engine = [NewScoringEngine EXCEPT
                   !.scoreState = ScoreStateAfter(perfects, misses, goods)]
    /\ lastOp = "init"
    /\ detectedOnsets = <<>>
    /\ staleOnsets = {}
    /\ pauseSnapshot = Null
    /\ InitAnalysis(DefaultDetectorConfig, DEFAULT_SAMPLE_RATE, DEFAULT_HOP_SIZE)

\* scoreState = applyHitResult(scoreState, result); lastHitResult = result
CallApplyHitResult ==
  /\ lastOp = "init"
  /\ \E result \in ScoreResults :
       engine' = [engine EXCEPT !.scoreState = applyHitResult(@, result),
                                !.lastHitResult = Some(result)]
  /\ lastOp' = "applyHitResult"
  /\ UNCHANGED analysisVars
  /\ UNCHANGED <<tab, transportVars, intakeVars, audioVars, detectedOnsets,
                 staleOnsets, pauseSnapshot>>

NextFold == CallApplyHitResult

SpecFold == InitFold /\ [][NextFold]_vars

\* ------------------------------------------------------- onset detection
\* An OnsetDetector fed one frame level after another.
MaxHops == 8
FrameLevels == {-60, -46, -40, -39, -34}
DetectorConfigs == {DetectorConfig(44100, 512), DetectorConfig(48000, 480)}

InitOnset ==
  \E config \in DetectorConfigs :
    /\ now = 0
    /\ isRunning = TRUE
    /\ tab = TabRegular
    /\ gameState = "idle"
    /\ playStartTime = 0
    /\ pausedAtTime = 0
    /\ pausedFromCountdown = FALSE
    /\ speed = DEFAULT_SPEED
    /\ lookAhead = DEFAULT_LOOK_AHEAD_SEC
    /\ loopConfig = Null
    /\ rafPending = FALSE
    /\ rafOrphans = 0
    /\ onsetQueue = <<>>
    /\ currentPitch = Null
    /\ pendingOnsets = <<>>
    /\ pitchHistory = <<>>
    /\ lastPitchTimestamp = Null
    /\ lastOnset = Null
    /\ engine = NewScoringEngine
    /\ lastOp = "init"
    /\ detectedOnsets = <<>>
    /\ staleOnsets = {}
    /\ pauseSnapshot = Null
    /\ InitAnalysis(config, config.sampleRate, config.hopSamples)

\* The attack heard last, if any: when it was heard and whether it was
\* reported as an onset.
LastAttack(h) ==
  IF h = Null THEN Null
  ELSE IF Get(h).isAttack THEN Some([timeSec |-> Get(h).timeSec, isOnset |-> Get(h).isOnset])
  ELSE Get(h).previous

\* detector.process(rmsDb) on the next frame
CallOnsetDetectorProcess ==
  /\ detector.currentTimeSec < MaxHops * detector.config.hopSamples
  /\ \E rmsDb \in FrameLevels :
       LET outcome == OnsetDetectorProcess(detector, rmsDb) IN
         /\ detector' = outcome.detector
         /\ heard' = Some([rmsDb |-> rmsDb,
                           isOnset |-> outcome.isOnset,
                           timeSec |-> detector.currentTimeSec,
                           isAttack |-> /\ rmsDb > detector.config.thresholdDb
                                        /\ ExceedsBy(rmsDb, detector.lastRmsDb,
                                                     detector.config.riseThresholdDb),
                           previous |-> LastAttack(heard)])
  /\ lastOp' = "OnsetDetector.process"
  /\ UNCHANGED <<worklet, yin, pipeline>>
  /\ UNCHANGED <<tab, transportVars, intakeVars, audioVars, engine, detectedOnsets,
                 staleOnsets, pauseSnapshot>>

\* detector.reset()
CallOnsetDetectorReset ==
  /\ heard # Null
  /\ detector' = OnsetDetectorReset(detector)
  /\ heard' = Null
  /\ lastOp' = "OnsetDetector.reset"
  /\ UNCHANGED <<worklet, yin, pipeline>>
  /\ UNCHANGED <<tab, transportVars, intakeVars, audioVars, engine, detectedOnsets,
                 staleOnsets, pauseSnapshot>>

NextOnset ==
  \/ CallOnsetDetectorProcess
  \/ CallOnsetDetectorReset

SpecOnset == InitOnset /\ [][NextOnset]_vars

\* ------------------------------------------------------ analysis worklet
\* The PitchDetectorProcessor called block after block by the audio
\* context, at the sample rates and hop sizes of WorkletConfigs.
MaxAudio == 4096
BlockSizes == {128, 1024}
BlockLevels == {-60, -30}
WorkletConfigs == {[sampleRate |-> 48000, hopSize |-> 512],
                   [sampleRate |-> 44100, hopSize |-> 512],
                   [sampleRate |-> 48000, hopSize |-> 1600]}

InitWorklet ==
  \E config \in WorkletConfigs :
    /\ now = 0
    /\ isRunning = TRUE
    /\ tab = TabRegular
    /\ gameState = "idle"
    /\ playStartTime = 0
    /\ pausedAtTime = 0
    /\ pausedFromCountdown = FALSE
    /\ speed = DEFAULT_SPEED
    /\ lookAhead = DEFAULT_LOOK_AHEAD_SEC
    /\ loopConfig = Null
    /\ rafPending = FALSE
    /\ rafOrphans = 0
    /\ onsetQueue = <<>>
    /\ currentPitch = Null
    /\ pendingOnsets = <<>>
    /\ pitchHistory = <<>>
    /\ lastPitchTimestamp = Null
    /\ lastOnset = Null
    /\ engine = NewScoringEngine
    /\ lastOp = "init"
    /\ detectedOnsets = <<>>
    /\ staleOnsets = {}
    /\ pauseSnapshot = Null
    /\ InitAnalysis(DetectorConfig(config.sampleRate, config.hopSize),
                    config.sampleRate, config.hopSize)

\* process(inputs) for the next block of the context: a block of samples at
\* one level or, until the source is connected, no input at all
CallProcess ==
  /\ worklet.currentFrame < MaxAudio
  /\ \E quantum \in BlockSizes :
       \/ /\ worklet.ringBuffer.samplesWritten = 0
          /\ worklet' = ProcessorProcess(worklet, Null, quantum, SILENCE_DB)
          /\ heard' = heard
       \/ \E rmsDb \in BlockLevels :
            /\ worklet' = ProcessorProcess(worklet, Some(quantum), quantum, rmsDb)
            /\ heard' = Some([rmsDb |-> rmsDb,
                              isOnset |-> worklet'.posted.onset > worklet.posted.onset,
                              isAttack |->
                                /\ worklet.ringBuffer.samplesWritten + quantum
                                     - worklet.ringBuffer.lastAnalysisIndex
                                     >= worklet.ringBuffer.hopSize
                                /\ rmsDb > DEFAULT_ONSET_THRESHOLD_DB
                                /\ rmsDb - worklet.lastRmsDb > onsetRiseDb
                                /\ \/ worklet.lastOnsetTime = Null
                                   \/ (worklet.currentFrame - Get(worklet.lastOnsetTime)) * 1000
                                        > DEFAULT_DEBOUNCE_MS * worklet.sampleRate,
                              frameCount |-> worklet.frameCount])
  /\ lastOp' = "process"
  /\ UNCHANGED <<detector, yin, pipeline>>
  /\ UNCHANGED <<tab, transportVars, intakeVars, audioVars, engine, detectedOnsets,
                 staleOnsets, pauseSnapshot>>

NextWorklet == CallProcess

SpecWorklet == InitWorklet /\ [][NextWorklet]_vars

\* --------------------------------------------------------- pitch estimate
\* The two YinDetectors, each given the CMND values of one frame after
\* another. With five lags and these sample rates the lag range
\* [minTau, maxTau) is 1..3 or 2..3.
CmndValues == {10, 15, 20, 30, 40}
YinSampleRates == {1500, 3000}
CmndBuffers ==
  {b \in [0..(YinWindow \div 2 - 1) -> CmndValues \cup {100}] :
     \A tau \in DOMAIN b : b[tau] = 100 <=> tau = 0}

InitYin ==
  \E sampleRate \in YinSampleRates :
    /\ now = 0
    /\ isRunning = TRUE
    /\ tab = TabRegular
    /\ gameState = "idle"
    /\ playStartTime = 0
    /\ pausedAtTime = 0
    /\ pausedFromCountdown = FALSE
    /\ speed = DEFAULT_SPEED
    /\ lookAhead = DEFAULT_LOOK_AHEAD_SEC
    /\ loopConfig = Null
    /\ rafPending = FALSE
    /\ rafOrphans = 0
    /\ onsetQueue = <<>>
    /\ currentPitch = Null
    /\ pendingOnsets = <<>>
    /\ pitchHistory = <<>>
    /\ lastPitchTimestamp = Null
    /\ lastOnset = Null
    /\ engine = NewScoringEngine
    /\ lastOp = "init"
    /\ detectedOnsets = <<>>
    /\ staleOnsets = {}
    /\ pauseSnapshot = Null
    /\ InitAnalysis(DefaultDetectorConfig, sampleRate, DEFAULT_HOP_SIZE)

\* detect(audioBuffer) of the audio library's YinDetector
CallYinDetect ==
  /\ \E cmnd \in CmndBuffers :
       /\ yin' = [yin EXCEPT !.yinBuffer = cmnd]
       /\ heard' = Some([by |-> "YinDetector", result |-> YinDetect(yin')])
  /\ lastOp' = "detect"
  /\ UNCHANGED <<detector, worklet, pipeline>>
  /\ UNCHANGED <<tab, transportVars, intakeVars, audioVars, engine, detectedOnsets,
                 staleOnsets, pauseSnapshot>>

\* detect(audioBuffer) of the worklet's YinDetector
CallWorkletYinDetect ==
  /\ \E cmnd \in CmndBuffers :
       /\ yin' = [yin EXCEPT !.yinBuffer = cmnd]
       /\ heard' = Some([by |-> "worklet", result |-> WorkletYinDetect(yin')])
  /\ lastOp' = "detect"
  /\ UNCHANGED <<detector, worklet, pipeline>>
  /\ UNCHANGED <<tab, transportVars, intakeVars, audioVars, engine, detectedOnsets,
                 staleOnsets, pauseSnapshot>>

NextYin ==
  \/ CallYinDetect
  \/ CallWorkletYinDetect

SpecYin == InitYin /\ [][NextYin]_vars

\* ---------------------------------------------------- pipeline set-up
\* A PitchDetectorProcessor constructed from the options of its caller and
\* then called block after block; the drain loop of process is taken one
\* iteration at a time.
MaxSetupAudio == 1536
MaxDrain == 3
WindowOptions == {-2048, 0, 2048}
HopOptions == {-1, 0, 512}
SetupBlockSize == 128

InitSetup ==
  /\ now = 0
  /\ isRunning = TRUE
  /\ tab = TabRegular
  /\ gameState = "idle"
  /\ playStartTime = 0
  /\ pausedAtTime = 0
  /\ pausedFromCountdown = FALSE
  /\ speed = DEFAULT_SPEED
  /\ lookAhead = DEFAULT_LOOK_AHEAD_SEC
  /\ loopConfig = Null
  /\ rafPending = FALSE
  /\ rafOrphans = 0
  /\ onsetQueue = <<>>
  /\ currentPitch = Null
  /\ pendingOnsets = <<>>
  /\ pitchHistory = <<>>
  /\ lastPitchTimestamp = Null
  /\ lastOnset = Null
  /\ engine = NewScoringEngine
  /\ lastOp = "init"
  /\ detectedOnsets = <<>>
  /\ staleOnsets = {}
  /\ pauseSnapshot = Null
  /\ InitAnalysis(DefaultDetectorConfig, DEFAULT_SAMPLE_RATE, DEFAULT_HOP_SIZE)

\* new PitchDetectorProcessor({processorOptions: options})
ConstructProcessor ==
  /\ pipeline.constructed = "no"
  /\ \E windowSize \in WindowOptions, hopSize \in HopOptions :
       LET options == [windowSize |-> windowSize, hopSize |-> hopSize] IN
         IF ProcessorConstructorThrows(options)
           THEN /\ pipeline' = [pipeline EXCEPT !.options = Some(options),
                                                !.constructed = "threw"]
                /\ UNCHANGED worklet
           ELSE /\ pipeline' = [pipeline EXCEPT !.options = Some(options),
                                                !.constructed = "ok"]
                /\ worklet' = NewProcessor(DEFAULT_SAMPLE_RATE,
                                           OrDefault(hopSize, DEFAULT_HOP_SIZE))
  /\ lastOp' = "construct"
  /\ UNCHANGED <<detector, heard, yin>>
  /\ UNCHANGED <<tab, transportVars, intakeVars, audioVars, engine, detectedOnsets,
                 staleOnsets, pauseSnapshot>>

\* process(inputs) up to the drain loop: ringBuffer.write(samples)
ProcessWrite ==
  /\ pipeline.constructed = "ok"
  /\ ~pipeline.draining
  /\ worklet.currentFrame < MaxSetupAudio
  /\ \E rmsDb \in BlockLevels :
       heard' = Some([rmsDb |-> rmsDb])
  /\ worklet' = [worklet EXCEPT !.ringBuffer = RingWrite(@, SetupBlockSize)]
  /\ pipeline' = [pipeline EXCEPT !.draining = TRUE, !.drained = 0]
  /\ lastOp' = "process"
  /\ UNCHANGED <<detector, yin>>
  /\ UNCHANGED <<tab, transportVars, intakeVars, audioVars, engine, detectedOnsets,
                 staleOnsets, pauseSnapshot>>

\* One iteration of while (isFrameReady()) { getFrame(); analyzeFrame() }
DrainIteration ==
  /\ pipeline.draining
  /\ isFrameReady(worklet.ringBuffer)
  /\ pipeline.drained < MaxDrain
  /\ worklet' = analyzeFrame([worklet EXCEPT !.ringBuffer = getFrame(@)], Get(heard).rmsDb)
  /\ pipeline' = [pipeline EXCEPT !.drained = @ + 1]
  /\ lastOp' = "drain"
  /\ UNCHANGED <<detector, heard, yin>>
  /\ UNCHANGED <<tab, transportVars, intakeVars, audioVars, engine, detectedOnsets,
                 staleOnsets, pauseSnapshot>>

\* The loop ends and process returns
ProcessReturn ==
  /\ pipeline.draining
  /\ ~isFrameReady(worklet.ringBuffer)
  /\ worklet' = [worklet EXCEPT !.currentFrame = @ + SetupBlockSize]
  /\ pipeline' = [pipeline EXCEPT !.draining = FALSE]
  /\ lastOp' = "return"
  /\ UNCHANGED <<detector, heard, yin>>
  /\ UNCHANGED <<tab, transportVars, intakeVars, audioVars, engine, detectedOnsets,
                 staleOnsets, pauseSnapshot>>

NextSetup ==
  \/ ConstructProcessor
  \/ ProcessWrite
  \/ DrainIteration
  \/ ProcessReturn

SpecSetup == InitSetup /\ [][NextSetup]_vars

\* ================================================================ properties
\* The verdicts folded into a ScoreState.
VerdictCount(st) == st.perfectCount + st.goodCount + st.okCount + st.missCount

\* C1: once a note has a verdict, a later processDetectedOnsets or
\* processMisses call of the same session leaves that verdict as it is, and
\* folds into the ScoreState exactly one verdict per note it resolves anew.
C1_VerdictIsFinal ==
  [][lastOp' \in {"processDetectedOnsets", "processMisses"} =>
       /\ \A k \in DOMAIN engine.noteResults :
            /\ k \in DOMAIN engine'.noteResults
            /\ engine'.noteResults[k] = engine.noteResults[k]
       /\ VerdictCount(engine'.scoreState) - VerdictCount(engine.scoreState)
            = Cardinality((DOMAIN engine'.noteResults) \ (DOMAIN engine.noteResults))
       /\ DOMAIN engine'.noteResults = engine'.hitNotes]_vars

\* processMisses ran at a song time past the miss threshold of a note that
\* was hit before: e1 keeps "perfect" although e4, much later, is missed.
C1_Witness ==
  /\ lastOp = "processMisses"
  /\ <<"e1", 0>> \in DOMAIN engine.noteResults
  /\ <<"e4", 0>> \in DOMAIN engine.noteResults
  /\ engine.noteResults[<<"e1", 0>>] = "perfect"
  /\ engine.noteResults[<<"e4", 0>>] = "miss"

\* The song time the transport clock shows now.
SongTimeNow == getSongTimeSec(now, playStartTime, speed)

\* C2: right after a loop restart the song time is the start of the loop,
\* the ScoreState is the initial one and no note is resolved.
C2_LoopRestartResets ==
  lastOp = "frameLoopRestart" =>
    /\ loopConfig # Null
    /\ SongTimeNow = Get(loopConfig).startSec
    /\ engine.scoreState = INITIAL_SCORE_STATE
    /\ engine.hitNotes = {}
    /\ DOMAIN engine.noteResults = {}

\* A restart of the loop over the second section, which starts at song time 16.
C2_Witness ==
  /\ lastOp = "frameLoopRestart"
  /\ loopConfig # Null
  /\ Get(loopConfig).startSec = 16
  /\ SongTimeNow = 16

\* The discontinuities of the transport.
Discontinuities == {"start", "stop", "resume", "frameLoopRestart"}

\* C3: after a start, a stop, a resume or a loop restart the list of
\* unresolved onsets and the pitch history are both empty.
C3_BuffersEmptyAfterDiscontinuity ==
  lastOp \in Discontinuities => pendingOnsets = <<>> /\ pitchHistory = <<>>

\* C4: no onset stamped before a start, resume or loop restart is handed to
\* the scoring engine as a DetectedOnset after it.
C4_NoStaleOnsetDetected ==
  \A i \in DOMAIN detectedOnsets : detectedOnsets[i].onset \notin staleOnsets

\* C5: the transport never steps from playing to countdown, and it enters
\* countdown from idle or finished (a start) or by a resume after a pause
\* that was issued during the countdown, and in no other way.
C5_CountdownEntry ==
  [][/\ gameState = "playing" => gameState' # "countdown"
     /\ (gameState # "countdown" /\ gameState' = "countdown") =>
          \/ gameState \in {"idle", "finished"} /\ lastOp' = "start"
          \/ /\ gameState = "paused"
             /\ lastOp' = "resume"
             /\ pauseSnapshot # Null
             /\ Get(pauseSnapshot).from = "countdown"]_vars

\* C6: at most one frame callback is pending at any time, and none while the
\* transport is idle, paused or finished.
C6_OneFrameCallback ==
  /\ rafOrphans = 0
  /\ gameState \in {"idle", "paused", "finished"} => ~rafPending

\* C7: resume acts only on a paused transport, and it returns the transport
\* to the state, countdown or playing, in which the preceding pause was issued.
C7_ResumeReturns ==
  [][lastOp' = "resume" =>
       /\ gameState = "paused"
       /\ pauseSnapshot # Null
       /\ Get(pauseSnapshot).from \in {"countdown", "playing"}
       /\ gameState' = Get(pauseSnapshot).from]_vars

\* A resume has taken the transport back into the countdown.
C7_Witness ==
  /\ lastOp = "resume"
  /\ gameState = "countdown"
  /\ pauseSnapshot # Null
  /\ Get(pauseSnapshot).from = "countdown"

\* C8: right after a resume the song time is the song time right before the
\* pause, and for a pause during the countdown the elapsed countdown time is
\* the elapsed time right before the pause.
C8_PauseKeepsSongTime ==
  (lastOp = "resume" /\ pauseSnapshot # Null) =>
    IF Get(pauseSnapshot).from = "countdown"
    THEN now - playStartTime = Get(pauseSnapshot).elapsedSec
    ELSE SongTimeNow = Get(pauseSnapshot).songTimeSec

\* C9: a countdown frame moves the transport to playing exactly when the
\* elapsed countdown time has reached beats x 60 / bpm, nothing else moves it
\* from countdown to playing, and the frame leaves the song time at the start
\* of the active loop, or at 0 without a loop.
C9_CountdownEnds ==
  [][/\ (gameState = "countdown" /\ lastOp' \in {"frameCountdown", "frameCountdownDone"}) =>
          /\ gameState' = "playing"
               <=> now - playStartTime >= COUNTDOWN_BEATS * (1200 \div tab.bpm)
          /\ gameState' = "playing" =>
               getSongTimeSec(now', playStartTime', speed')
                 = IF loopConfig = Null THEN 0 ELSE Get(loopConfig).startSec
     /\ (gameState = "countdown" /\ gameState' = "playing") =>
          lastOp' = "frameCountdownDone"]_vars

\* The countdown has ended with the loop over the second section active.
C9_Witness ==
  /\ lastOp = "frameCountdownDone"
  /\ gameState = "playing"
  /\ loopConfig # Null
  /\ SongTimeNow = 16

\* C10: a playing frame finishes the transport exactly when no loop is active
\* and the song time has reached the duration of the tab; nothing else
\* reaches finished, so with a loop active the transport never does.
C10_FinishedIffNoLoop ==
  [][/\ (gameState = "playing"
         /\ lastOp' \in {"framePlaying", "frameLoopRestart", "frameFinished"}) =>
          (gameState' = "finished" <=> loopConfig = Null /\ SongTimeNow >= tabDuration)
     /\ (gameState # "finished" /\ gameState' = "finished") =>
          gameState = "playing" /\ lastOp' = "frameFinished" /\ loopConfig = Null]_vars

\* C11: while a loop is configured, the song time a Playing frame hands to the
\* onset intake and to the scoring lies in [startSec, endSec) of the loop.
C11_SongTimeInsideLoop ==
  [][(lastOp' = "framePlaying" /\ loopConfig # Null) =>
       /\ Get(loopConfig).startSec <= (now - playStartTime) * speed
       /\ (now - playStartTime) * speed < Get(loopConfig).endSec]_vars

\* C12: the song time a Playing frame computes is never negative.
C12_SongTimeNonNegative ==
  gameState = "playing" => (now - playStartTime) * speed >= 0

\* resume() has just returned to Playing after a pause of positive length that
\* began at a positive song time.
C12_Witness ==
  /\ lastOp = "resume"
  /\ gameState = "playing"
  /\ now > pausedAtTime
  /\ (now - playStartTime) * speed > 0

\* How long after the onset the newest sample of a non-empty ring is stamped.
NewestSampleAge(onset, ring) ==
  ring[Len(ring)].timestampSec - onset.timestampSec

\* The samples of the ring the trusted search may choose for the onset.
TrustedAfter(onset, ring) ==
  {p \in Range(ring) : /\ p.timestampSec >= onset.timestampSec
                       /\ p.timestampSec - onset.timestampSec <= MAX_LOOKAHEAD_SEC
                       /\ p.midi # Null
                       /\ p.clarity >= MIN_TRUSTED_CLARITY}

\* C13: an onset without a trusted post-onset sample is not emitted by an
\* intake pass in which the newest sample is less than MAX_WAIT_SEC after it.
C13_DeferredInsideWaitWindow ==
  lastOp = "drainDetectedOnsets" =>
    \A i \in DOMAIN detectedOnsets :
      ~ /\ TrustedAfter(detectedOnsets[i].onset, pitchHistory) = {}
        /\ pitchHistory # <<>>
        /\ NewestSampleAge(detectedOnsets[i].onset, pitchHistory) >= 0
        /\ NewestSampleAge(detectedOnsets[i].onset, pitchHistory) < MAX_WAIT_SEC

\* C14: an onset emitted without a trusted match is emitted only once the
\* newest sample is MAX_WAIT_SEC or more after it, and then with its own midi
\* if that is clear, else with the midi of the current pitch if that is at or
\* after the onset, else with no midi.
C14_FallbackAfterWaitWindow ==
  lastOp = "drainDetectedOnsets" =>
    \A i \in DOMAIN detectedOnsets :
      LET d == detectedOnsets[i] IN
      TrustedAfter(d.onset, pitchHistory) = {} =>
        /\ pitchHistory # <<>>
        /\ NewestSampleAge(d.onset, pitchHistory) >= MAX_WAIT_SEC
        /\ d.detectedMidi =
             IF d.onset.midi # Null /\ d.onset.clarity >= MIN_TRUSTED_CLARITY
             THEN d.onset.midi
             ELSE IF /\ currentPitch # Null
                     /\ Get(currentPitch).midi # Null
                     /\ Get(currentPitch).timestampSec >= d.onset.timestampSec
                  THEN Get(currentPitch).midi
                  ELSE Null

\* C15: an intake pass that runs more than MAX_WAIT_SEC after the timestamp of
\* an onset does not leave that onset in the unresolved queue.
C15_NoOnsetQueuedBeyondWait ==
  lastOp = "drainDetectedOnsets" =>
    \A i \in DOMAIN pendingOnsets :
      now - pendingOnsets[i].timestampSec <= MAX_WAIT_SEC

\* The onsets an intake pass has looked at: emitted or put back.
OnsetsSeen == {detectedOnsets[i].onset : i \in DOMAIN detectedOnsets}
                \cup Range(pendingOnsets)

\* C17: the sample the trusted search chooses for an onset is stamped at or
\* after the onset and at most MAX_LOOKAHEAD_SEC after it, has a midi and
\* clarity >= MIN_TRUSTED_CLARITY, and no newer sample of the ring meets these
\* conditions; an onset with such a sample is emitted with that sample's midi.
C17_TrustedSearchPicksNewest ==
  lastOp = "drainDetectedOnsets" =>
    /\ \A onset \in OnsetsSeen :
         LET chosen == pickPitchAfterOnset(onset.timestampSec, pitchHistory) IN
         chosen # Null =>
           /\ onset.timestampSec <= Get(chosen).timestampSec
           /\ Get(chosen).timestampSec <= onset.timestampSec + MAX_LOOKAHEAD_SEC
           /\ Get(chosen).midi # Null
           /\ Get(chosen).clarity >= MIN_TRUSTED_CLARITY
           /\ \A p \in TrustedAfter(onset, pitchHistory) :
                p.timestampSec <= Get(chosen).timestampSec
    /\ \A i \in DOMAIN detectedOnsets :
         LET d == detectedOnsets[i] IN
         \A p \in TrustedAfter(d.onset, pitchHistory) :
           (\A q \in TrustedAfter(d.onset, pitchHistory) : q.timestampSec <= p.timestampSec)
             => d.detectedMidi = p.midi
    /\ \A onset \in Range(pendingOnsets) : TrustedAfter(onset, pitchHistory) = {}

\* An onset was emitted with the midi of the newer of two trusted samples
\* that both lie inside its lookahead window and carry different midis.
C17_Witness ==
  /\ lastOp = "drainDetectedOnsets"
  /\ Len(detectedOnsets) = 1
  /\ Len(pitchHistory) = 2
  /\ Range(pitchHistory) = TrustedAfter(detectedOnsets[1].onset, pitchHistory)
  /\ pitchHistory[1].midi # pitchHistory[2].midi
  /\ detectedOnsets[1].detectedMidi = pitchHistory[2].midi

\* The last n elements of s, all of s if it is shorter.
NewestOf(s, n) ==
  LET k == IF Len(s) < n THEN Len(s) ELSE n IN
  [i \in 1..k |-> s[Len(s) - k + i]]

\* C16: after an intake pass the unresolved queue holds at most 50 onsets and
\* the ring at most 120 samples; the ring is the newest 120 of the old ring
\* plus the tracked sample, and the onsets emitted or kept are the newest 50
\* of the old queue plus the drained events, each in arrival order.
C16_BuffersKeepNewest ==
  [][lastOp' = "drainDetectedOnsets" =>
      LET tracks == /\ currentPitch # Null
                    /\ \/ lastPitchTimestamp = Null
                       \/ Get(currentPitch).timestampSec > Get(lastPitchTimestamp)
          ring == IF tracks THEN Append(pitchHistory, Get(currentPitch))
                  ELSE pitchHistory
          kept == NewestOf(pendingOnsets \o onsetQueue, 50)
          emitted == [i \in DOMAIN detectedOnsets' |-> detectedOnsets'[i].onset]
      IN /\ Len(pendingOnsets') <= 50
         /\ Len(pitchHistory') <= 120
         /\ pitchHistory' = NewestOf(ring, 120)
         /\ Range(pendingOnsets') \cup Range(emitted) = Range(kept)
         /\ pendingOnsets' = SelectSeq(kept, LAMBDA o : o \in Range(pendingOnsets'))
         /\ emitted = SelectSeq(kept, LAMBDA o : o \in Range(emitted))]_vars

\* Both buffers are full after an overflow: the oldest sample of the ring and
\* the head of an onset burst are gone.
C16_Witness ==
  /\ lastOp = "drainDetectedOnsets"
  /\ Len(pitchHistory) = 120
  /\ pitchHistory[1].timestampSec > 1
  /\ Len(pendingOnsets) = 50
  /\ pendingOnsets[1].midi # Some(1)

\* The song time of the expected note with this key.
NoteTime(noteKey) ==
  allNotes[CHOOSE i \in DOMAIN allNotes : getNoteKey(allNotes[i]) = noteKey].timeSec

\* C18: a step that folds a Miss for a note folds it after no hit verdict of a
\* note with a later song time.
C18_VerdictsInSongTimeOrder ==
  [][\A m \in DOMAIN engine'.noteResults \ DOMAIN engine.noteResults :
       engine'.noteResults[m] = "miss" =>
         \A h \in DOMAIN engine'.noteResults :
           engine'.noteResults[h] # "miss" => NoteTime(h) <= NoteTime(m)]_vars

\* C19: a Playing frame resolves every expected note that was unresolved and
\* is more than okMs behind the frame's song time, with a Miss unless an onset
\* of the same frame matched it, and gives a Miss to no note that is okMs or
\* less behind.
C19_MissesExactlyOverdue ==
  [][lastOp' = "framePlaying" =>
      LET songTimeSec == (now - playStartTime) * speed IN
      \A i \in DOMAIN allNotes :
        LET noteKey == <<allNotes[i].eventId, allNotes[i].noteIndex>>
            overdue == songTimeSec - allNotes[i].timeSec > DEFAULT_TIMING_TOLERANCES.okMs
        IN noteKey \notin engine.hitNotes =>
             /\ overdue => noteKey \in engine'.hitNotes
             /\ (overdue /\ detectedOnsets' = <<>>) => engine'.noteResults[noteKey] = "miss"
             /\ (noteKey \in engine'.hitNotes /\ engine'.noteResults[noteKey] = "miss")
                  => overdue]_vars

\* A frame that had an onset to score gave a Miss to the overdue note e1 and
\* none to the chord e2, which is exactly at the frame's song time or ahead.
C19_Witness ==
  /\ lastOp = "framePlaying"
  /\ detectedOnsets # <<>>
  /\ <<"e1", 0>> \in engine.hitNotes
  /\ engine.noteResults[<<"e1", 0>>] = "miss"
  /\ \A k \in engine.hitNotes : k[1] = "e2" => engine.noteResults[k] # "miss"

\* The verdict the engine holds for TimingNote, "none" while it is pending.
TimingVerdict ==
  IF <<"e1", 0>> \in engine.hitNotes THEN engine.noteResults[<<"e1", 0>>] ELSE "none"

\* C20: for an onset of matching pitch, an offset of exactly 200 ms, early or
\* late, is Ok, one of 201 ms gives no verdict and leaves the note pending,
\* one of exactly 50 ms is Perfect and one of exactly 100 ms is Good.
C20_TimingBoundaries ==
  (lastOp = "findMatchingNotes" /\ detectedOnsets[1].detectedMidi \in {{64}, {52}}) =>
    LET offsetMs == detectedOnsets[1].onsetSongTimeSec - 1000
        absMs == IF offsetMs < 0 THEN 0 - offsetMs ELSE offsetMs
    IN /\ absMs = 200 => TimingVerdict = "ok"
       /\ absMs = 201 => TimingVerdict = "none"
       /\ absMs = 50 => TimingVerdict = "perfect"
       /\ absMs = 100 => TimingVerdict = "good"

\* An onset of the note's pitch exactly 200 ms early has been scored Ok.
C20_Witness ==
  /\ lastOp = "findMatchingNotes"
  /\ detectedOnsets[1].detectedMidi = {64}
  /\ detectedOnsets[1].onsetSongTimeSec = 800
  /\ TimingVerdict = "ok"
  /\ engine.scoreState.okCount = 1

\* The onset being scored, and what the matching rules say about it.
OnsetOffset(timeSec) == detectedOnsets[1].onsetSongTimeSec - timeSec
OnsetInWindow(timeSec) == OnsetOffset(timeSec) <= 16 /\ OnsetOffset(timeSec) >= -16
OnsetTimingClass(timeSec) ==
  LET a == IF OnsetOffset(timeSec) < 0 THEN 0 - OnsetOffset(timeSec) ELSE OnsetOffset(timeSec)
  IN IF a <= 4 THEN "perfect" ELSE IF a <= 8 THEN "good" ELSE "ok"
OnsetPitchNear(midi) ==
  \E m \in detectedOnsets[1].detectedMidi :
    \/ m - midi \in -2..2
    \/ m - (midi + 12) \in -2..2
    \/ m - (midi - 12) \in -2..2

C23_PointsUsePreUpdateStreak ==
  [][lastOp' = "applyHitResult" =>
      LET before == engine.scoreState
          base == CASE engine'.lastHitResult = {"perfect"} -> 100
                    [] engine'.lastHitResult = {"good"} -> 75
                    [] engine'.lastHitResult = {"ok"} -> 50
                    [] OTHER -> 0
          multiplier == IF before.streak < 10 THEN 1
                        ELSE IF before.streak < 20 THEN 2
                        ELSE IF before.streak < 30 THEN 3
                        ELSE 4
      IN engine'.scoreState.score = before.score + base * multiplier]_vars

\* The hit that raised the streak from 9 to 10 was scored at 1x: ten
\* Perfects make 1000 points.
C23_Witness ==
  /\ lastOp = "applyHitResult"
  /\ engine.lastHitResult = {"perfect"}
  /\ engine.scoreState.streak = 10
  /\ engine.scoreState.perfectCount = 10
  /\ engine.scoreState.score = 1000

\* C24: a verdict never lowers score or maxStreak; the streak becomes 0 on a
\* Miss and the old streak plus one otherwise; a Miss on a streak of one or
\* more leaves maxStreak as it was.
C24_ScoreStateMonotone ==
  [][lastOp' = "applyHitResult" =>
      LET before == engine.scoreState
          after == engine'.scoreState
          miss == engine'.lastHitResult = {"miss"}
      IN /\ after.score >= before.score
         /\ after.maxStreak >= before.maxStreak
         /\ after.streak = 0 <=> miss
         /\ ~miss => after.streak = before.streak + 1
         /\ (miss /\ before.streak >= 1) => after.maxStreak = before.maxStreak]_vars

\* A Miss has ended a streak of 12 that was the longest so far.
C24_Witness ==
  /\ lastOp = "applyHitResult"
  /\ engine.lastHitResult = {"miss"}
  /\ engine.scoreState.streak = 0
  /\ engine.scoreState.maxStreak = 12
  /\ engine.scoreState.perfectCount = 12
  /\ engine.scoreState.goodCount = 0

\* C27: process(rmsDb) reports an onset exactly when rmsDb is above
\* thresholdDb, has risen by more than riseThresholdDb over lastRmsDb, and
\* more than debounceMs lie between lastOnsetTimeSec and currentTimeSec;
\* every call leaves rmsDb in lastRmsDb, and lastOnsetTimeSec is changed by
\* no call but one that reports an onset.
C27_OnsetIffLevelRiseDebounce ==
  [][lastOp' = "OnsetDetector.process" =>
       LET rmsDb == Get(heard').rmsDb
           config == detector.config
           level == rmsDb > config.thresholdDb
           rise == \/ detector.lastRmsDb = Null
                   \/ rmsDb - Get(detector.lastRmsDb) > config.riseThresholdDb
           debounced ==
             \/ detector.lastOnsetTimeSec = Null
             \/ (detector.currentTimeSec - Get(detector.lastOnsetTimeSec)) * 1000
                  > config.debounceMs * config.sampleRate
       IN /\ Get(heard').isOnset <=> (level /\ rise /\ debounced)
          /\ detector'.lastRmsDb = Some(rmsDb)
          /\ detector'.lastOnsetTimeSec # detector.lastOnsetTimeSec => Get(heard').isOnset
          /\ Get(heard').isOnset =>
               detector'.lastOnsetTimeSec = Some(detector'.currentTimeSec)]_vars

\* A loud, risen frame is held back because the last onset is exactly
\* debounceMs old, and only lastRmsDb takes note of it.
C27_Witness ==
  /\ lastOp = "OnsetDetector.process"
  /\ heard # Null
  /\ Get(heard).isAttack
  /\ ~Get(heard).isOnset
  /\ detector.lastRmsDb = Some(Get(heard).rmsDb)
  /\ detector.lastOnsetTimeSec # Null
  /\ (Get(heard).timeSec - Get(detector.lastOnsetTimeSec)) * 1000
       = detector.config.debounceMs * detector.config.sampleRate

\* C28: of two attacks (frames that meet the level and rise conditions),
\* the first of which is reported, the second is not reported when less
\* than debounceMs lie between the two frames and is reported when more
\* than debounceMs lie between them.
C28_DebounceSeparatesAttacks ==
  [][(/\ lastOp' = "OnsetDetector.process"
      /\ Get(heard').isAttack
      /\ Get(heard').previous # Null
      /\ Get(Get(heard').previous).isOnset) =>
       LET apart == Get(heard').timeSec - Get(Get(heard').previous).timeSec
           debounce == detector.config.debounceMs * detector.config.sampleRate
       IN /\ apart * 1000 < debounce => ~Get(heard').isOnset
          /\ apart * 1000 > debounce => Get(heard').isOnset]_vars

\* A frame that meets the onset conditions has its onset posted by the call
\* that analyses it.
OnsetPostedInItsFrame ==
  heard # Null /\ Get(heard).isAttack => Get(heard).isOnset

\* C29: the pitch messages posted, and the level messages posted, never
\* number more than messagesPerSecond for each second of audio the context
\* has played, one message allowed on top; and a frame that meets the
\* onset conditions has its onset posted by the call that analyses it,
\* whatever frameCount was.
C29_MessageRateBounded ==
  /\ worklet.posted.pitch * worklet.sampleRate
       <= messagesPerSecond * worklet.currentFrame + worklet.sampleRate
  /\ worklet.posted.level * worklet.sampleRate
       <= messagesPerSecond * worklet.currentFrame + worklet.sampleRate
  /\ OnsetPostedInItsFrame

\* C30: after every write and drain, the frames analysed so far number
\* floor(samplesWritten / hopSize).
C30_OneFramePerHop ==
  worklet.frames = worklet.ringBuffer.samplesWritten \div worklet.ringBuffer.hopSize

\* C31: when no CMND value at a lag in [minTau, maxTau) is below the
\* threshold, detect returns a frequency exactly when the smallest value in
\* that range is below twice the threshold, and otherwise returns no
\* frequency with clarity 0.
C31_FallbackToGlobalMinimum ==
  lastOp = "detect" =>
    LET range == yinMinTau(yin)..(yinMaxTau(yin) - 1)
        result == Get(heard).result
    IN (\A tau \in range : yin.yinBuffer[tau] >= yin.threshold) =>
         /\ result.frequency # Null <=>
              \E tau \in range : yin.yinBuffer[tau] < 2 * yin.threshold
         /\ result.frequency = Null => result.clarity = 0

\* C32: a processor is constructed only from options whose windowSize and
\* hopSize are positive, and a process call of a constructed processor
\* cuts at most one frame from the block it was given before it returns.
C32_MalformedConfigRejected ==
  pipeline.constructed = "ok" =>
    /\ Get(pipeline.options).windowSize > 0
    /\ Get(pipeline.options).hopSize > 0
    /\ pipeline.drained <= 1

\* The expected notes that DetectedOnset d matches: a chord note by timing
\* alone, a single note by timing and pitch.
OnsetMatchesNote(d, note) ==
  /\ d.onsetSongTimeSec - note.timeSec \in -16..16
  /\ \/ note.isChord
     \/ \E m \in d.detectedMidi :
          \/ m - note.midi \in -2..2
          \/ m - (note.midi + 12) \in -2..2
          \/ m - (note.midi - 12) \in -2..2

\* C33: a note that is pending when a Playing frame begins and that one of
\* the frame's DetectedOnsets matches within the timing window has a hit
\* verdict after the frame, also when the frame's song time is more than
\* okMs past the note.
C33_OnsetsScoredBeforeMisses ==
  [][lastOp' = "framePlaying" =>
      \A i \in DOMAIN allNotes, k \in DOMAIN detectedOnsets' :
        LET noteKey == <<allNotes[i].eventId, allNotes[i].noteIndex>>
        IN (noteKey \notin engine.hitNotes /\ OnsetMatchesNote(detectedOnsets'[k], allNotes[i]))
             => /\ noteKey \in engine'.hitNotes
                /\ engine'.noteResults[noteKey] # "miss"]_vars

\* A frame whose song time is more than okMs past the note e1 has given it
\* a hit for the onset it took in.
C33_Witness ==
  /\ lastOp = "framePlaying"
  /\ detectedOnsets # <<>>
  /\ (now - playStartTime) * speed > 16
  /\ <<"e1", 0>> \in engine.hitNotes
  /\ engine.noteResults[<<"e1", 0>>] # "miss"
  /\ OnsetMatchesNote(detectedOnsets[1], [timeSec |-> 0, midi |-> 52, isChord |-> FALSE])

\* C34: a DetectedOnset whose song time is within okMs of a single expected
\* note and whose pitch matches it leaves that note with a hit verdict, not
\* a Miss, in whichever frame the onset is emitted.
C34_MatchingAttackNeverMissed ==
  [][lastOp' = "framePlaying" =>
      \A i \in DOMAIN allNotes, k \in DOMAIN detectedOnsets' :
        LET noteKey == <<allNotes[i].eventId, allNotes[i].noteIndex>>
        IN (~allNotes[i].isChord /\ OnsetMatchesNote(detectedOnsets'[k], allNotes[i]))
             => /\ noteKey \in engine'.hitNotes
                /\ engine'.noteResults[noteKey] # "miss"]_vars

\* C35: while a loop is active, a step gives a verdict only to expected
\* notes whose time lies in [startSec, endSec) of the loop, and changes the
\* ScoreState only if it gives such a verdict.
C35_VerdictsOnlyInsideLoop ==
  [][(loopConfig # Null /\ loopConfig' = loopConfig) =>
      LET inside == {<<allNotes[i].eventId, allNotes[i].noteIndex>> :
                       i \in {j \in DOMAIN allNotes :
                                /\ Get(loopConfig).startSec <= allNotes[j].timeSec
                                /\ allNotes[j].timeSec < Get(loopConfig).endSec}}
          judged == engine'.hitNotes \ engine.hitNotes
      IN /\ judged \subseteq inside
         /\ (engine'.scoreState # engine.scoreState /\ lastOp' = "framePlaying")
              => judged \cap inside # {}]_vars

\* The song position the transport holds: the song time of a frame at the
\* present audio time while Playing, and the song time the first frame
\* after a resume at any later time would have while Paused.
SongPosition(state, audioTimeSec, playStartTimeSec, pausedAtTimeSec, spd) ==
  IF state = "paused"
    THEN (pausedAtTimeSec - playStartTimeSec) * spd
    ELSE (audioTimeSec - playStartTimeSec) * spd

\* C36: a setSpeed call that changes the speed while Playing, or while
\* Paused out of Playing, leaves the song position where it was.
C36_SetSpeedKeepsPosition ==
  [][(/\ speed' # speed
      /\ gameState \in {"playing", "paused"}
      /\ gameState = "paused" => ~pausedFromCountdown) =>
       SongPosition(gameState', now', playStartTime', pausedAtTime', speed')
         = SongPosition(gameState, now, playStartTime, pausedAtTime, speed)]_vars

\* C37: when a frame finishes the song with no loop active, every expected
\* note holds a verdict and the counters of the ScoreState add up to the
\* number of expected notes.
C37_AllNotesJudgedAtFinish ==
  (lastOp = "frameFinished" /\ loopConfig = Null) =>
    /\ \A i \in DOMAIN allNotes :
         <<allNotes[i].eventId, allNotes[i].noteIndex>> \in DOMAIN engine.noteResults
    /\ VerdictCount(engine.scoreState) = Len(allNotes)

\* C38: an onset that arrives while the transport is idle, in countdown or
\* paused is never emitted and never judged. A step taken in one of these
\* states emits no DetectedOnset and gives no note a verdict, and whenever
\* the transport enters playing the onset queue and the list of unresolved
\* onsets are both empty, so nothing that arrived earlier is left to emit.
C38_OffStageOnsetsDiscarded ==
  [][/\ gameState \in {"idle", "countdown", "paused"} =>
          /\ detectedOnsets' = <<>>
          /\ DOMAIN engine'.noteResults \subseteq DOMAIN engine.noteResults
          /\ VerdictCount(engine'.scoreState) <= VerdictCount(engine.scoreState)
     /\ (gameState # "playing" /\ gameState' = "playing") =>
          /\ onsetQueue' = <<>>
          /\ pendingOnsets' = <<>>]_vars

\* An onset arrived during the countdown or a pause and is queued, with a
\* frame callback or a resume still to come.
C38_Witness ==
  /\ gameState \in {"countdown", "paused"}
  /\ onsetQueue # <<>>
  /\ \A i \in DOMAIN onsetQueue : onsetQueue[i].timestampSec >= playStartTime
  /\ gameState = "countdown" => rafPending

\* C39: in every state of the scoring engine the current streak is at most
\* the longest streak, and the four verdict counters add up to the number of
\* notes in the resolved set.
C39_StreakAndCountersConsistent ==
  /\ engine.scoreState.streak <= engine.scoreState.maxStreak
  /\ VerdictCount(engine.scoreState) = Cardinality(engine.hitNotes)

\* Hits built a streak and a miss then broke it: the streak is back at zero
\* below the longest one, with hits and misses both counted.
C39_Witness ==
  /\ lastOp = "processMisses"
  /\ engine.scoreState.streak = 0
  /\ engine.scoreState.maxStreak >= 2
  /\ engine.scoreState.missCount >= 1
  /\ Cardinality(engine.hitNotes) >= 3

\* C40: the playback speed lies within [MIN_SPEED, MAX_SPEED], that is
\* within [0.25, 2.0], in every reachable state: with the initial speed
\* taken from the configuration and after every setSpeed call.
C40_SpeedWithinRange ==
  /\ MIN_SPEED <= speed
  /\ speed <= MAX_SPEED

====
